---------------------------- MODULE Spec2Model ----------------------------
(***************************************************************************)
(* Model of the Zbot execution core (backend/app/core/jobs.py, cache.py    *)
(* and registry.py, backend/app/routers/tasks.py and cache.py, the batch   *)
(* handlers under backend/app/tasks, and backend/vghsdk/core.py).          *)
(*                                                                         *)
(* The specifications share the state:                                     *)
(*   Spec        - the program: jobs are submitted through run_task, run   *)
(*                 by run_crawler_job and its handler, cancelled through   *)
(*                 the cancel endpoint;                                    *)
(*   ApiSpec     - the JobManager class on its own: its public class       *)
(*                 methods called in any order with any arguments;         *)
(*   ResumeSpec  - one StatsFeeTask job whose run is started again with    *)
(*                 the job's state kept;                                   *)
(*   PoolSpec    - SessionManager.get_client and the coroutines that hold  *)
(*                 the clients it returns;                                 *)
(*   RequestSpec - VghClient.safe_request called on one client, and        *)
(*                 RequestLiveSpec, the same with every step taken;        *)
(*   CacheSpec   - the CacheManager class on its own, its methods called   *)
(*                 in any order while the clock advances;                  *)
(*   PublishSpec - one StatsFeeTask job from its staging step on, with     *)
(*                 the cache endpoints;                                    *)
(*   RegistrySpec - TaskRegistry.register and get_task;                    *)
(*   DispatchSpec - one job of a task registered in any of the shapes      *)
(*                 register accepts;                                       *)
(*   AuthSpec    - ensure_eip and ensure_cks called on one client by two   *)
(*                 coroutines;                                             *)
(*   ListSpec    - JobManager.list_jobs called while jobs are created and  *)
(*                 updated;                                                *)
(*   LoginSpec   - VghClient._login_eip followed page by page;             *)
(*   BedSpec     - DashboardBedTask's staging and publishing, with the     *)
(*                 cache endpoints;                                        *)
(*   RunSpec     - one job run by run_crawler_job, whose handler may also  *)
(*                 raise the TypeError that run_crawler_job answers by     *)
(*                 calling the handler again without a progress callback,  *)
(*                 and LiveSpec, the same with every runner step taken.    *)
(***************************************************************************)
EXTENDS Integers, Sequences, FiniteSets, TLC

\* ------------------------------------------------------------------ bounds

\* Largest batch a handler is given, and so the largest total_items.
MaxItems == 2
\* Largest reading of the wall clock (datetime.now()).
MaxClock == 1
\* Number of JobManager calls made in one behaviour of ApiSpec.
MaxOps == 4

\* ------------------------------------------------------------ value spaces

\* uuid4 job ids; an id that was never created is a missing job.
JobIds == {"j1", "j2"}

\* Checkpoint keys (hisno, fee code); opaque.
Keys == 1..MaxItems

\* Python None, for the optional string-valued fields and arguments.
None == "None"

\* JobStatus
PENDING == "pending"
RUNNING == "running"
SUCCESS == "success"
FAILED == "failed"
CANCELLED == "cancelled"

JobStatus == {PENDING, RUNNING, SUCCESS, FAILED, CANCELLED}

\* The statuses update_job treats as terminal.
TerminalStatuses == {SUCCESS, FAILED, CANCELLED}

\* Ids of the batch tasks modelled: IviBatchSubmitTask and StatsFeeTask.
IVI == "note_ivi_submit"
FEE == "stats_fee_update"

TaskIds == {IVI, FEE}

\* A handler's result object: its class, its status attribute (None when the
\* class has none) and its success count (0 when the class has none).
Result(kind, status, success) ==
    [ kind |-> kind, status |-> status, success |-> success, cache_id |-> {} ]

\* Python None, for the result field and argument.
NoResult == Result("NoneType", None, 0)

\* An optional integer (int or None) is a set of at most one integer.
NoInt == {}

Some(x) == {x}

TheInt(o) == CHOOSE x \in o : TRUE

\* ------------------------------------------------------------------ state

VARIABLES
    jobs,      \* JobManager._jobs: job id -> Job, defined on the created ids
    now,       \* the wall clock read by datetime.now()
    runner,    \* per job id: the run_crawler_job background task and its handler
    nops,      \* ApiSpec: the number of JobManager calls made so far
    lastMark,  \* ApiSpec: <<job id, key, n>> when the call just made was
               \* mark_item_completed(job id, key) and it was the n-th such
               \* call in a row (n counted up to 2), and <<>> otherwise
    clients,   \* SessionManager._clients: eip_id -> the pooled VghClient object
    objects,   \* the VghClient objects constructed so far, in order of
               \* construction; an object's identity is its index
    callers,   \* per caller of get_client: where it is, the VghClient object
               \* its local `client` refers to, the requests it sent through it
    req,       \* the frame of the safe_request call in progress
    cache,     \* the files of CacheManager.CACHE_DIR: cache id -> file content
    minted,    \* the number of cache ids uuid4 has handed out so far
    registry,  \* TaskRegistry._tasks: task id -> the registered task object
    retry,     \* the frame of the retry_cache_upload request in progress
    auth,      \* per coroutine: the frame of its ensure_eip or ensure_cks call
    login,     \* the frame of the _login_eip call that is followed page by page
    ret        \* the call made last on a component called directly, and what
               \* it returned

\* The state of the job manager and the runners.
jobVars == <<jobs, now, runner, nops, lastMark>>

\* The state of the session pool, its clients and the request executor.
netVars == <<clients, objects, callers, req>>

\* The state of the result cache and the task registry, and the frames of the
\* calls that are followed one at a time.
svcVars == <<cache, minted, registry, retry, auth, login, ret>>

vars == <<jobs, now, runner, nops, lastMark, clients, objects, callers, req,
          cache, minted, registry, retry, auth, login, ret>>

\* ------------------------------------------------------------- JobManager

\* Job(...) as create_job constructs it.
NewJob(task_id, t) ==
    [ task_id          |-> task_id,
      status           |-> PENDING,
      result           |-> NoResult,
      error            |-> None,
      created_at       |-> t,
      completed_at     |-> NoInt,
      progress         |-> 0,
      cancelled        |-> FALSE,
      total_items      |-> 0,
      completed_keys   |-> {},
      progress_message |-> "" ]

\* JobManager.create_job: the table with a new pending job under job_id.
create_job(tbl, job_id, task_id, t) ==
    [ j \in DOMAIN tbl \cup {job_id} |->
        IF j = job_id THEN NewJob(task_id, t) ELSE tbl[j] ]

\* JobManager.get_job: the job, or None (the empty set).
get_job(tbl, job_id) ==
    IF job_id \in DOMAIN tbl THEN {tbl[job_id]} ELSE {}

\* JobManager.cancel_job: sets the flag of an existing job, whatever its status.
cancel_job(tbl, job_id) ==
    IF job_id \in DOMAIN tbl
    THEN [tbl EXCEPT ![job_id].cancelled = TRUE]
    ELSE tbl

\* The value cancel_job returns.
cancel_job_result(tbl, job_id) == job_id \in DOMAIN tbl

\* JobManager.is_cancelled
is_cancelled(tbl, job_id) ==
    IF job_id \in DOMAIN tbl THEN tbl[job_id].cancelled ELSE FALSE

\* The completed_at stamp of update_job: every update that carries a terminal
\* status stamps the current time.
StampCompletedAt(job, status, t) ==
    IF status \in TerminalStatuses THEN Some(t) ELSE job.completed_at

\* The progress update_job leaves: the progress argument when given, and 100
\* when the status argument is SUCCESS.
UpdatedProgress(job, status, progress) ==
    IF status = SUCCESS THEN 100
    ELSE IF progress # NoInt THEN TheInt(progress)
    ELSE job.progress

\* The status update_job leaves: the status argument when given.
UpdatedStatus(job, status) ==
    IF status # None THEN status ELSE job.status

\* JobManager.update_job: partial update of an existing job; t is the reading
\* of datetime.now().
update_job(tbl, job_id, status, result, error, progress, message, t) ==
    IF job_id \in DOMAIN tbl
    THEN LET job == tbl[job_id] IN
         [tbl EXCEPT ![job_id] =
            [ job EXCEPT
                !.status = UpdatedStatus(job, status),
                !.result = IF result # NoResult THEN result ELSE job.result,
                !.error = IF error # None THEN error ELSE job.error,
                !.progress = UpdatedProgress(job, status, progress),
                !.progress_message =
                    IF message # None THEN message ELSE job.progress_message,
                !.completed_at = StampCompletedAt(job, status, t) ]]
    ELSE tbl

\* A variant of set_total_items that makes an entry for a missing job.
set_total_items_creating(tbl, job_id, total) ==
    [ j \in DOMAIN tbl \cup {job_id} |->
        IF j = job_id
        THEN [ (IF job_id \in DOMAIN tbl THEN tbl[j] ELSE NewJob(None, 0))
                 EXCEPT !.total_items = total ]
        ELSE tbl[j] ]

\* JobManager.set_total_items
set_total_items(tbl, job_id, total) ==
    IF job_id \in DOMAIN tbl
    THEN [tbl EXCEPT ![job_id].total_items = total]
    ELSE tbl

\* int(len(completed_keys) / total_items * 100). The float quotient, times 100
\* and truncated, equals the integer quotient below for every total_items up
\* to 12 and every count up to twice the total, which covers the model.
Percent(count, total) == (count * 100) \div total

\* A variant of AddKey that keeps only the key added last.
AddKeyForgetting(keys, key) == {key}

\* completed_keys.add(key): a set insertion.
AddKey(keys, key) == keys \cup {key}

\* A variant of MarkedProgress that adds one item's share at every call instead
\* of recomputing the percentage from the ledger.
MarkedProgressPerCall(job, keys) ==
    IF job.total_items > 0
    THEN job.progress + Percent(1, job.total_items)
    ELSE job.progress

\* A variant of MarkedProgress that computes the percentage from the ledger as
\* it was before the key was added.
MarkedProgressBeforeAdd(job, keys) ==
    IF job.total_items > 0
    THEN Percent(Cardinality(job.completed_keys), job.total_items)
    ELSE job.progress

\* The progress mark_item_completed leaves.
MarkedProgress(job, keys) ==
    IF job.total_items > 0
    THEN Percent(Cardinality(keys), job.total_items)
    ELSE job.progress

\* JobManager.mark_item_completed
mark_item_completed(tbl, job_id, key, message) ==
    IF job_id \in DOMAIN tbl
    THEN LET job == tbl[job_id]
             keys == AddKey(job.completed_keys, key)
         IN [tbl EXCEPT ![job_id] =
               [ job EXCEPT
                   !.completed_keys = keys,
                   !.progress_message = message,
                   !.progress = MarkedProgress(job, keys) ]]
    ELSE tbl

\* A variant of is_item_completed that finds no key completed.
is_item_completed_never(tbl, job_id, key) == FALSE

\* JobManager.is_item_completed
is_item_completed(tbl, job_id, key) ==
    IF job_id \in DOMAIN tbl /\ tbl[job_id].completed_keys # {}
    THEN key \in tbl[job_id].completed_keys
    ELSE FALSE

\* ------------------------------------------------------------ CacheManager

\* CacheManager.CACHE_TTL_HOURS; the wall clock counts hours.
CACHE_TTL_HOURS == 48

\* The task id of DashboardBedTask; it and StatsFeeTask stage their results.
BED == "dashboard_bed"

CacheTasks == {FEE, BED}

\* Number of cache ids uuid4 hands out in one behaviour.
MaxCacheIds == 3

\* The cache ids asked for: the ones handed out, and ones never handed out.
CacheIds == 1..MaxCacheIds

\* A Python dict is a function from keys to ints; a key is <<type, text>>, the
\* type of the key object and the text str() gives it. A dict of the model
\* has no two keys with one text.
StrKey(text) == <<"str", text>>

IntKey(text) == <<"int", text>>

\* {text: v}
NativeDict(text, v) == [k \in {StrKey(text)} |-> v]

\* {0: v}, a mapping keyed by row index as DataFrame.to_dict() makes them
IndexDict(v) == [k \in {IntKey("0")} |-> v]

\* json.dump(d, default=str) of a dict: the JSON object, a function from member
\* names to values; a key that is not a string is written as its text.
json_dump(d) ==
    [name \in {k[2] : k \in DOMAIN d} |->
        d[CHOOSE k \in DOMAIN d : k[2] = name]]

\* json.load of a JSON object: a dict whose keys are strings.
json_load(doc) == [k \in {StrKey(name) : name \in DOMAIN doc} |-> doc[k[2]]]

\* What the handlers stage. params and target_info are dicts of string keys;
\* the data of StatsFeeTask is keyed by strings (master_data, by month and
\* code), the data of DashboardBedTask is final_df.to_dict(), whose rows are
\* keyed by index.
CacheParams == {NativeDict("year", 1)}

CacheTargets == {NativeDict("sheet_id", 1)}

CachePayloads(task_id) ==
    IF task_id = BED
    THEN {IndexDict(1)}
    ELSE {NativeDict("master_data", v) : v \in 1..2}

\* The content save_cache builds, as json.dump writes it to the file.
\* (created_at and expires_at are written by isoformat and read back by
\* fromisoformat, which gives the same datetime.)
CacheFile(cache_id, task_id, params, data, target_info, t) ==
    [ id          |-> cache_id,
      task_id     |-> task_id,
      created_at  |-> t,
      expires_at  |-> t + CACHE_TTL_HOURS,
      params      |-> json_dump(params),
      target_info |-> json_dump(target_info),
      data        |-> json_dump(data) ]

\* json.load of a cache file.
LoadedFile(file) ==
    [ id          |-> file.id,
      task_id     |-> file.task_id,
      created_at  |-> file.created_at,
      expires_at  |-> file.expires_at,
      params      |-> json_load(file.params),
      target_info |-> json_load(file.target_info),
      data        |-> json_load(file.data) ]

\* The directory without the files of the ids in gone.
Unlinked(files, gone) == [id \in DOMAIN files \ gone |-> files[id]]

\* The ids of the files under the directory of task_id.
FilesOf(files, task_id) == {id \in DOMAIN files : files[id].task_id = task_id}

\* A variant of the expiry test that counts the hours from the creation.
IsExpiredFromCreation(file, t) == t > file.created_at

\* datetime.now() > expires_at
IsExpired(file, t) == t > file.expires_at

\* A variant of _cleanup_old_caches that unlinks nothing.
cleanup_old_caches_none(files, task_id) == files

\* CacheManager._cleanup_old_caches: every file of the task is unlinked.
cleanup_old_caches(files, task_id) == Unlinked(files, FilesOf(files, task_id))

\* CacheManager.save_cache at time t, uuid4 handing out the id n + 1: the
\* directory it leaves, the ids handed out, and the id it returns.
save_cache(files, n, task_id, params, data, target_info, t) ==
    LET cache_id == n + 1
        kept == cleanup_old_caches(files, task_id)
    IN
    [ cache  |-> [id \in DOMAIN kept \union {cache_id} |->
                    IF id = cache_id
                    THEN CacheFile(cache_id, task_id, params, data,
                                   target_info, t)
                    ELSE kept[id]],
      minted |-> n + 1,
      value  |-> cache_id ]

\* CacheManager.delete_cache: the directory it leaves and what it returns.
delete_cache(files, cache_id) ==
    IF cache_id \in DOMAIN files
    THEN [ cache |-> Unlinked(files, {cache_id}), value |-> TRUE ]
    ELSE [ cache |-> files, value |-> FALSE ]

\* A variant of get_cache's test that never finds a file expired.
GetFindsExpiredNever(file, t) == FALSE

\* get_cache's test of the file it found.
GetFindsExpired(file, t) == IsExpired(file, t)

\* CacheManager.get_cache at time t: the directory it leaves and what it
\* returns, the loaded content or None (a set of at most one content).
get_cache(files, cache_id, t) ==
    IF cache_id \notin DOMAIN files
    THEN [ cache |-> files, value |-> {} ]
    ELSE IF GetFindsExpired(files[cache_id], t)
    THEN [ cache |-> delete_cache(files, cache_id).cache, value |-> {} ]
    ELSE [ cache |-> files, value |-> {LoadedFile(files[cache_id])} ]

\* CacheManager.cleanup_expired at time t: the directory it leaves and the
\* number of files it removed.
cleanup_expired(files, t) ==
    LET gone == {id \in DOMAIN files : IsExpired(files[id], t)} IN
    [ cache |-> Unlinked(files, gone), value |-> Cardinality(gone) ]

\* The metadata list_caches gives for a file (the size of the file left out).
CacheMeta(file) ==
    [ id         |-> file.id,
      task_id    |-> file.task_id,
      created_at |-> file.created_at,
      expires_at |-> file.expires_at,
      params     |-> json_load(file.params) ]

\* The ways to list the files of the ids in ids newest first; files created at
\* one time come in the order the directory is read.
NewestFirst(files, ids) ==
    { s \in [1..Cardinality(ids) -> ids] :
        /\ \A i, j \in DOMAIN s : i # j => s[i] # s[j]
        /\ \A i, j \in DOMAIN s :
             i < j => files[s[i]].created_at >= files[s[j]].created_at }

\* CacheManager.list_caches at time t (task_id None: every task), the
\* directory read in the order that lists the ids as order: the directory it
\* leaves and the list it returns.
list_caches(files, task_id, t, order) ==
    LET swept == cleanup_expired(files, t).cache IN
    [ cache |-> swept,
      value |-> [i \in DOMAIN order |-> CacheMeta(swept[order[i]])] ]

\* The orders list_caches may read the directory in.
ListOrders(files, task_id, t) ==
    LET swept == cleanup_expired(files, t).cache
        ids == {id \in DOMAIN swept :
                  /\ task_id # None => swept[id].task_id = task_id
                  /\ ~IsExpired(swept[id], t)}
    IN NewestFirst(swept, ids)

\* ------------------------------------------------------------ TaskRegistry

\* The id of a task written as a decorated function (the id the docstring of
\* crawler_task gives as its example).
FN == "consent_search"

\* The ids tasks are registered under.
RegIds == TaskIds \union {FN}

\* What register is called with: a function decorated with crawler_task, a
\* class (constructs: whether calling it returns an instance), an object with
\* an id, or an object without one; obj tells two tasks of one id apart.
Shapes == {"function", "class", "instance", "other"}

TaskArg(shape, id, obj, constructs) ==
    [ shape |-> shape, id |-> id, obj |-> obj, constructs |-> constructs ]

\* A task in _tasks: the function itself, the instance given, or the instance
\* register made of the class given.
StoredTask(kind, id, obj, made) ==
    [ kind |-> kind, id |-> id, obj |-> obj, made |-> made ]

\* The task register stores for the argument x, if it stores one.
TaskOf(x) ==
    CASE x.shape = "function" -> {StoredTask("function", x.id, x.obj, FALSE)}
      [] x.shape = "class" ->
           IF x.constructs
           THEN {StoredTask("instance", x.id, x.obj, TRUE)}
           ELSE {}
      [] x.shape = "instance" -> {StoredTask("instance", x.id, x.obj, FALSE)}
      [] OTHER -> {}

\* A variant of TaskRegistry.register that keeps the task first registered
\* under an id.
register_first_wins(tasks, x) ==
    IF TaskOf(x) = {} \/ x.id \in DOMAIN tasks
    THEN tasks
    ELSE [id \in DOMAIN tasks \union {x.id} |->
            IF id = x.id THEN CHOOSE t \in TaskOf(x) : TRUE ELSE tasks[id]]

\* TaskRegistry.register: _tasks as the call leaves it.
register(tasks, x) ==
    IF TaskOf(x) = {}
    THEN tasks
    ELSE [id \in DOMAIN tasks \union {x.id} |->
            IF id = x.id THEN CHOOSE t \in TaskOf(x) : TRUE ELSE tasks[id]]

\* TaskRegistry.get: the task or None (a set of at most one task).
get_task(tasks, task_id) ==
    IF task_id \in DOMAIN tasks THEN {tasks[task_id]} ELSE {}

\* _tasks as register_all_tasks and the imports of the task modules leave it,
\* for the tasks modelled: each registered as an instance.
LoadedTasks == [id \in TaskIds |-> StoredTask("instance", id, 1, FALSE)]

\* str() of the AttributeError that task.run raises for a function.
NoRunMethod == "'function' object has no attribute 'run'"

\* ------------------------------------------------------------------ clock

\* Time passes: a later datetime.now() reads a later time.
Tick ==
    /\ now < MaxClock
    /\ now' = now + 1
    /\ UNCHANGED <<jobs, runner, nops, lastMark>>
    /\ UNCHANGED netVars
    /\ UNCHANGED svcVars

\* ----------------------------------------- JobManager called on its own

\* The id uuid4 gives the next job: one that is not in the table. The ids are
\* opaque, so they are handed out in a fixed order.
JobIdOrder == <<"j1", "j2">>

HasFreshId == Cardinality(DOMAIN jobs) < Len(JobIdOrder)

FreshId == JobIdOrder[Cardinality(DOMAIN jobs) + 1]

\* One call of update_job: its keyword arguments.
UpdateCall(status, result, error, progress, message) ==
    [ status |-> status, result |-> result, error |-> error,
      progress |-> progress, message |-> message ]

\* The argument combinations of the direct update_job calls: those of the
\* repository's call sites (routers/tasks.py lines 37, 64, 92, 137, 147, 256)
\* and an update of the message alone.
UpdateCalls ==
    { UpdateCall(RUNNING, NoResult, None, NoInt, None),
      UpdateCall(FAILED, NoResult, "error", NoInt, None),
      UpdateCall(CANCELLED, Result("StatsFeeResult", "cancelled", 0), None, NoInt, None),
      UpdateCall(CANCELLED, NoResult, None, NoInt, None),
      UpdateCall(SUCCESS, Result("StatsFeeResult", "success", 0), None, NoInt, None),
      UpdateCall(None, NoResult, None, Some(0), None),
      UpdateCall(None, NoResult, None, Some(50), None),
      UpdateCall(None, NoResult, None, NoInt, "msg") }

\* The runner of a job id that run_task never submitted.
IdleRunner ==
    [ pc |-> "idle", task |-> None, items |-> <<>>, i |-> 0, success |-> 0,
      ledger0 |-> {}, fetched |-> <<>>,
      cache_id |-> NoInt, fallback |-> FALSE ]

ApiCreate(task_id) ==
    /\ nops < MaxOps
    /\ HasFreshId
    /\ jobs' = create_job(jobs, FreshId, task_id, now)
    /\ nops' = nops + 1
    /\ lastMark' = <<>>
    /\ UNCHANGED <<now, runner>>
    /\ UNCHANGED netVars
    /\ UNCHANGED svcVars

ApiUpdate(job_id, c) ==
    /\ nops < MaxOps
    /\ jobs' = update_job(jobs, job_id, c.status, c.result, c.error,
                          c.progress, c.message, now)
    /\ nops' = nops + 1
    /\ lastMark' = <<>>
    /\ UNCHANGED <<now, runner>>
    /\ UNCHANGED netVars
    /\ UNCHANGED svcVars

ApiCancel(job_id) ==
    /\ nops < MaxOps
    /\ jobs' = cancel_job(jobs, job_id)
    /\ nops' = nops + 1
    /\ lastMark' = <<>>
    /\ UNCHANGED <<now, runner>>
    /\ UNCHANGED netVars
    /\ UNCHANGED svcVars

ApiSetTotal(job_id, total) ==
    /\ nops < MaxOps
    /\ jobs' = set_total_items(jobs, job_id, total)
    /\ nops' = nops + 1
    /\ lastMark' = <<>>
    /\ UNCHANGED <<now, runner>>
    /\ UNCHANGED netVars
    /\ UNCHANGED svcVars

ApiMark(job_id, key, message) ==
    /\ nops < MaxOps
    /\ jobs' = mark_item_completed(jobs, job_id, key, message)
    /\ nops' = nops + 1
    /\ lastMark' = IF lastMark # <<>> /\ lastMark[1] = job_id /\ lastMark[2] = key
                   THEN <<job_id, key, 2>>
                   ELSE <<job_id, key, 1>>
    /\ UNCHANGED <<now, runner>>
    /\ UNCHANGED netVars
    /\ UNCHANGED svcVars

\* ------------------------------------------------- the program: run_task

\* The batches a job is submitted with: the item keys in order. The fee codes
\* of StatsFeeTask are a sorted set; the items of IviBatchSubmitTask are a list
\* in which two items may carry the same hisno.
DistinctBatches == { [x \in 1..n |-> x] : n \in 0..MaxItems }

Batches(task_id) ==
    IF task_id = IVI THEN DistinctBatches \cup {<<1, 1>>} ELSE DistinctBatches

\* run_task: creates the job and queues run_crawler_job as a background task.
Submit(task_id, items) ==
    /\ get_task(registry, task_id) # {}
    /\ HasFreshId
    /\ jobs' = create_job(jobs, FreshId, task_id, now)
    /\ runner' = [runner EXCEPT ![FreshId] =
                    [ pc |-> "queued", task |-> task_id, items |-> items,
                      i |-> 0, success |-> 0, ledger0 |-> {}, fetched |-> <<>>,
                      cache_id |-> NoInt, fallback |-> FALSE ]]
    /\ UNCHANGED <<now, nops, lastMark>>
    /\ UNCHANGED netVars
    /\ UNCHANGED svcVars

\* The cancel endpoint: rejects a missing job (404) and a job that is neither
\* pending nor running (400); otherwise sets the flag and the status.
Cancel(job_id) ==
    /\ job_id \in DOMAIN jobs
    /\ jobs[job_id].status \in {PENDING, RUNNING}
    /\ jobs' = update_job(cancel_job(jobs, job_id), job_id, CANCELLED,
                          NoResult, None, NoInt, None, now)
    /\ UNCHANGED <<now, runner, nops, lastMark>>
    /\ UNCHANGED netVars
    /\ UNCHANGED svcVars

\* ------------------------------------------- the program: run_crawler_job

\* progress_callback of run_crawler_job: the message is logged, not stored.
progress_callback(tbl, job_id, progress) ==
    update_job(tbl, job_id, None, NoResult, None, Some(progress), None, 0)

\* The background task has ended: its locals are gone.
Ended(r) ==
    [ pc |-> "done", task |-> r.task, items |-> <<>>, i |-> 0, success |-> 0,
      ledger0 |-> {}, fetched |-> <<>>,
      cache_id |-> NoInt, fallback |-> FALSE ]

\* The job status run_crawler_job gives a handler's result.
FinalStatus(result) ==
    IF result.status = "cancelled" THEN CANCELLED ELSE SUCCESS

\* run_crawler_job after task.run returned: the final update of the job.
Finish(tbl, job_id, r, result, t) ==
    [ jobs   |-> update_job(tbl, job_id, FinalStatus(result), result, None,
                            NoInt, None, t),
      runner |-> Ended(r) ]

\* A variant of the failing exits that returns without updating the job.
FailWithoutUpdate(tbl, job_id, r, error, t) ==
    [ jobs |-> tbl, runner |-> Ended(r) ]

\* run_crawler_job where it ends the job as failed: an early return, or its
\* except clause.
Fail(tbl, job_id, r, error, t) ==
    [ jobs   |-> update_job(tbl, job_id, FAILED, NoResult, error, NoInt, None, t),
      runner |-> Ended(r) ]

\* The handler was given progress_callback, and with it the job id: it polls
\* the cancel flag, consults and writes the ledger and reports progress. In
\* the call without progress_callback its job_id is None.
Tracked(r) == ~r.fallback

\* A variant of the except TypeError clause that looks at how far the first
\* call came and fails the job when it had processed an item.
FallbackUnlessStarted(tbl, job_id, r, t) ==
    IF Tracked(r) /\ r.fetched = <<>>
    THEN [ jobs   |-> tbl,
           runner |-> [r EXCEPT !.pc = "prep", !.fallback = TRUE, !.i = 0,
                                !.success = 0, !.cache_id = NoInt] ]
    ELSE Fail(tbl, job_id, r, "exception", t)

\* except TypeError: the first call of task.run raised a TypeError, and
\* task.run is called again without progress_callback; a TypeError of that
\* call goes to the outer except clause.
Fallback(tbl, job_id, r, t) ==
    IF Tracked(r)
    THEN [ jobs   |-> tbl,
           runner |-> [r EXCEPT !.pc = "prep", !.fallback = TRUE, !.i = 0,
                                !.success = 0, !.cache_id = NoInt] ]
    ELSE Fail(tbl, job_id, r, "exception", t)

\* What a handler returns when its poll finds the job cancelled.
CancelledResult(r) ==
    IF r.task = IVI
    THEN Result("IviSubmitResult", None, r.success)
    ELSE Result("StatsFeeResult", "cancelled", 0)

\* The handler after its loop: IviBatchSubmitTask returns its counts;
\* StatsFeeTask reports 90 and goes on to stage and write its data.
LoopEnd(tbl, job_id, r, t) ==
    IF r.task = IVI
    THEN Finish(tbl, job_id, r, Result("IviSubmitResult", None, r.success), t)
    ELSE [ jobs   |-> IF Tracked(r) THEN progress_callback(tbl, job_id, 90)
                      ELSE tbl,
           runner |-> [r EXCEPT !.pc = "stage"] ]

\* The top of the handler's loop from item i on: poll the cancel flag, skip the
\* items whose key is in the ledger, stop at the first item to process, whose
\* requests are sent (fetched records the keys of the items processed).
RECURSIVE LoopTop(_, _, _, _, _)
LoopTop(tbl, job_id, r, i, t) ==
    IF i > Len(r.items) THEN LoopEnd(tbl, job_id, r, t)
    ELSE IF Tracked(r) /\ is_cancelled(tbl, job_id)
    THEN Finish(tbl, job_id, r, CancelledResult(r), t)
    ELSE IF Tracked(r) /\ is_item_completed(tbl, job_id, r.items[i])
    THEN LoopTop(tbl, job_id, r, i + 1, t)
    ELSE [ jobs   |-> tbl,
           runner |-> [r EXCEPT !.pc = "item", !.i = i,
                                !.fetched = Append(r.fetched, r.items[i])] ]

\* A step of the runner of job_id that leaves the table and runner record nxt.
RunnerStep(job_id, nxt) ==
    /\ jobs' = nxt.jobs
    /\ runner' = [runner EXCEPT ![job_id] = nxt.runner]
    /\ UNCHANGED <<now, nops, lastMark>>
    /\ UNCHANGED netVars
    /\ UNCHANGED svcVars

\* The background task starts: the job is picked up, and failed at once when
\* the registry has no task of its id.
Pickup(job_id) ==
    /\ runner[job_id].pc = "queued"
    /\ LET running == update_job(jobs, job_id, RUNNING, NoResult, None, NoInt,
                                 None, now)
       IN RunnerStep(job_id,
            IF get_task(registry, runner[job_id].task) = {}
            THEN Fail(running, job_id, runner[job_id], "Task not found", now)
            ELSE [ jobs   |-> running,
                   runner |-> [runner[job_id] EXCEPT !.pc = "starting"] ])

\* Credentials: missing ones fail the job, otherwise the pooled client logs in.
Start(job_id, has_credentials) ==
    /\ runner[job_id].pc = "starting"
    /\ RunnerStep(job_id,
         IF has_credentials
         THEN [ jobs |-> jobs, runner |-> [runner[job_id] EXCEPT !.pc = "login"] ]
         ELSE Fail(jobs, job_id, runner[job_id], "Missing credentials", now))

\* client.ensure_eip() returned or raised, then the parameters are parsed and
\* the handler is called.
LoginDone(job_id, outcome) ==
    /\ runner[job_id].pc = "login"
    /\ RunnerStep(job_id,
         CASE outcome = "ok" ->
                [ jobs |-> jobs, runner |-> [runner[job_id] EXCEPT !.pc = "prep"] ]
           [] outcome = "login_failed" ->
                Fail(jobs, job_id, runner[job_id], "Login failed", now)
           [] outcome = "invalid_params" ->
                Fail(jobs, job_id, runner[job_id], "Invalid parameters", now)
           [] outcome = "raised" ->
                Fail(jobs, job_id, runner[job_id], "exception", now))

\* task.run is called, which raises for a task that is a function, and the
\* handler runs up to its loop: it raises (the login of IviBatchSubmitTask fails,
\* a datastore read raises), returns early (an invalid date; a sheet that cannot
\* be opened or lists no codes), or sets total_items and enters its loop
\* (ledger0 records the ledger it finds).
EarlyResult(r) ==
    IF r.task = IVI
    THEN Result("IviSubmitResult", None, 0)
    ELSE Result("StatsFeeResult", "error", 0)

HandlerPrep(job_id, outcome) ==
    /\ runner[job_id].pc = "prep"
    /\ LET r == runner[job_id] IN
       RunnerStep(job_id,
         CASE registry[r.task].kind = "function" ->
                Fail(jobs, job_id, r, NoRunMethod, now)
           [] outcome = "ok" ->
                LoopTop(IF Tracked(r)
                        THEN set_total_items(jobs, job_id, Len(r.items))
                        ELSE jobs,
                        job_id,
                        [r EXCEPT !.ledger0 = jobs[job_id].completed_keys],
                        1, now)
           [] outcome = "early_return" ->
                Finish(jobs, job_id, r, EarlyResult(r), now)
           [] outcome = "raised" ->
                Fail(jobs, job_id, r, "exception", now)
           [] outcome = "type_error" ->
                Fallback(jobs, job_id, r, now))

\* The requests of item i returned. ok: the item is counted and marked;
\* failed: the item is reported in the details (a rejected post, an exception
\* caught in the loop); invalid (StatsFeeTask): the handler returns
\* data_unavailable. Then the loop goes on.
ItemDone(job_id, outcome) ==
    /\ runner[job_id].pc = "item"
    /\ outcome = "invalid" => runner[job_id].task = FEE
    /\ LET r == runner[job_id]
           counted == IF r.task = IVI
                      THEN [r EXCEPT !.success = r.success + 1]
                      ELSE r
       IN
       RunnerStep(job_id,
         CASE outcome = "ok" ->
                LoopTop(IF Tracked(r)
                        THEN mark_item_completed(jobs, job_id, r.items[r.i],
                                                 "msg")
                        ELSE jobs,
                        job_id, counted, r.i + 1, now)
           [] outcome = "failed" ->
                LoopTop(jobs, job_id, r, r.i + 1, now)
           [] outcome = "invalid" ->
                Finish(jobs, job_id, r,
                       Result("StatsFeeResult", "data_unavailable", 0), now))

\* A step of the runner of job_id that leaves the table and runner record of
\* nxt, the cache directory files and n cache ids handed out.
StagingStep(job_id, nxt, files, n) ==
    /\ jobs' = nxt.jobs
    /\ runner' = [runner EXCEPT ![job_id] = nxt.runner]
    /\ cache' = files
    /\ minted' = n
    /\ UNCHANGED <<now, nops, lastMark>>
    /\ UNCHANGED netVars
    /\ UNCHANGED <<registry, retry, auth, login, ret>>

\* The data StatsFeeTask stages: master_data, filled from the items fetched.
cache_data(r) == NativeDict("master_data", Len(r.fetched))

\* The StatsFeeResult of a run that staged its data under cache_id.
StagedResult(status, cache_id) ==
    [ Result("StatsFeeResult", status, 0) EXCEPT !.cache_id = cache_id ]

\* StatsFeeTask staged its data in the cache and prepared the cell updates:
\* with cells to write it reports 95 and writes; with none it returns, the
\* entry left in the cache; save_cache may raise, before or after it removed
\* the older entries of the task, and what it raises may be a TypeError
\* (json.dump raises one for a key it cannot write).
StageDone(job_id, outcome) ==
    /\ runner[job_id].pc = "stage"
    /\ minted < MaxCacheIds
    /\ LET r == runner[job_id]
           res == save_cache(cache, minted, FEE, NativeDict("year", 1),
                             cache_data(r), NativeDict("sheet_id", 1), now)
           staged == [r EXCEPT !.cache_id = Some(res.value)]
       IN
       CASE outcome = "cells" ->
              StagingStep(job_id,
                [ jobs   |-> IF Tracked(r)
                             THEN progress_callback(jobs, job_id, 95)
                             ELSE jobs,
                  runner |-> [staged EXCEPT !.pc = "write"] ],
                res.cache, res.minted)
         [] outcome = "no_cells" ->
              StagingStep(job_id,
                Finish(jobs, job_id, r,
                       StagedResult("success", Some(res.value)), now),
                res.cache, res.minted)
         [] outcome = "raised" ->
              \E files \in {cache, cleanup_old_caches(cache, FEE)} :
                 StagingStep(job_id, Fail(jobs, job_id, r, "exception", now),
                             files, minted)
         [] outcome = "type_error" ->
              \E files \in {cache, cleanup_old_caches(cache, FEE)} :
                 StagingStep(job_id, Fallback(jobs, job_id, r, now),
                             files, minted)

\* The batch write of StatsFeeTask returned, and the staged entry is deleted,
\* or it raised, and the result names the entry.
WriteDone(job_id, written) ==
    /\ runner[job_id].pc = "write"
    /\ LET r == runner[job_id] IN
       IF written
       THEN StagingStep(job_id,
              Finish(jobs, job_id, r, StagedResult("success", NoInt), now),
              delete_cache(cache, TheInt(r.cache_id)).cache, minted)
       ELSE StagingStep(job_id,
              Finish(jobs, job_id, r,
                     StagedResult("partial_success", r.cache_id), now),
              cache, minted)

\* ------------------------------------------------ VghClient: the flags

\* User ids and passwords of the external system.
EipIds == {"u1", "u2"}

Passwords == {"s1", "s2"}

\* VghClient(eip_id, eip_psw) as __init__ leaves it.
VghClient(eip_id, eip_psw) ==
    [ eip_id               |-> eip_id,
      eip_psw              |-> eip_psw,
      is_eip_logged_in     |-> FALSE,
      is_drweb_initialized |-> FALSE,
      is_cks_logged_in     |-> FALSE ]

\* A variant of ensure_eip without its first test: it never returns at once.
EnsureEipEntryAlwaysLogin(client) ==
    IF ~client.is_eip_logged_in THEN "login_eip" ELSE "init_drweb"

\* ensure_eip from its entry to its first await or return: "return_true" when
\* both flags are set, otherwise the step it suspends in.
EnsureEipEntry(client) ==
    IF client.is_eip_logged_in /\ client.is_drweb_initialized THEN "return_true"
    ELSE IF ~client.is_eip_logged_in THEN "login_eip"
    ELSE "init_drweb"

\* ensure_eip after _login_eip returned True: the flag is set.
AfterLoginEip(client) == [client EXCEPT !.is_eip_logged_in = TRUE]

\* ensure_eip after the EIP flag is set: DrWeb is initialised unless its flag
\* is set.
EnsureEipAfterLogin(client) ==
    IF ~client.is_drweb_initialized THEN "init_drweb" ELSE "return_true"

\* ensure_eip after _init_drweb returned True: the flag is set.
AfterInitDrweb(client) == [client EXCEPT !.is_drweb_initialized = TRUE]

\* _handle_session_expired up to its await: the three flags are reset.
ResetFlags(client) ==
    [client EXCEPT !.is_eip_logged_in = FALSE,
                   !.is_drweb_initialized = FALSE,
                   !.is_cks_logged_in = FALSE]

\* ------------------------------------------------------- SessionManager

\* Number of VghClient objects constructed in one behaviour.
MaxClients == 3
\* Number of requests a caller sends through the client it was given.
MaxSends == 2

\* The coroutines that call get_client: run_crawler_job of two jobs, or the
\* doctor lookup endpoint.
Callers == {"a", "b"}

\* A variant of Reusable that reuses the stored client whatever the password.
ReusableAnyPassword(pool, objs, eip_id, eip_psw) == eip_id \in DOMAIN pool

\* get_client reuses the stored client: one is stored under eip_id and its
\* password is the one given.
Reusable(pool, objs, eip_id, eip_psw) ==
    /\ eip_id \in DOMAIN pool
    /\ objs[pool[eip_id]].eip_psw = eip_psw

\* SessionManager.get_client: the pool, the objects and the object returned.
\* A stored client with another password is deleted from the pool and a new
\* one is constructed and stored.
get_client(pool, objs, eip_id, eip_psw) ==
    IF Reusable(pool, objs, eip_id, eip_psw)
    THEN [ clients |-> pool, objects |-> objs, client |-> pool[eip_id] ]
    ELSE LET new == Len(objs) + 1 IN
         [ clients |-> [u \in DOMAIN pool \cup {eip_id} |->
                          IF u = eip_id THEN new ELSE pool[u]],
           objects |-> Append(objs, VghClient(eip_id, eip_psw)),
           client  |-> new ]

\* A caller that holds no client.
IdleCaller == [ pc |-> "idle", client |-> NoInt, sent |-> 0 ]

\* Where a caller of ensure_eip goes on from the value of EnsureEipEntry or
\* EnsureEipAfterLogin: it suspends in a login step, or ensure_eip returned
\* True and the handler may send.
CallerPc(step) == IF step = "return_true" THEN "ready" ELSE step

\* run_crawler_job (and the lookup endpoint) from get_client to the first await
\* of ensure_eip.
Acquire(c, eip_id, eip_psw) ==
    /\ callers[c].pc = "idle"
    /\ LET got == get_client(clients, objects, eip_id, eip_psw) IN
       /\ Len(got.objects) <= MaxClients
       /\ clients' = got.clients
       /\ objects' = got.objects
       /\ callers' = [callers EXCEPT ![c] =
                        [ pc     |-> CallerPc(EnsureEipEntry(got.objects[got.client])),
                          client |-> Some(got.client),
                          sent   |-> 0 ]]
    /\ UNCHANGED req
    /\ UNCHANGED jobVars
    /\ UNCHANGED svcVars

\* _login_eip returned to the ensure_eip of caller c. False: ensure_eip returns
\* False, the caller gives up and its reference is gone.
LoginEipDone(c, ok) ==
    /\ callers[c].pc = "login_eip"
    /\ LET o == TheInt(callers[c].client) IN
       IF ok
       THEN /\ objects' = [objects EXCEPT ![o] = AfterLoginEip(objects[o])]
            /\ callers' = [callers EXCEPT ![c].pc =
                             CallerPc(EnsureEipAfterLogin(AfterLoginEip(objects[o])))]
       ELSE /\ objects' = objects
            /\ callers' = [callers EXCEPT ![c] = IdleCaller]
    /\ UNCHANGED <<clients, req>>
    /\ UNCHANGED jobVars
    /\ UNCHANGED svcVars

\* _init_drweb returned to the ensure_eip of caller c.
InitDrwebDone(c, ok) ==
    /\ callers[c].pc = "init_drweb"
    /\ LET o == TheInt(callers[c].client) IN
       IF ok
       THEN /\ objects' = [objects EXCEPT ![o] = AfterInitDrweb(objects[o])]
            /\ callers' = [callers EXCEPT ![c].pc = "ready"]
       ELSE /\ objects' = objects
            /\ callers' = [callers EXCEPT ![c] = IdleCaller]
    /\ UNCHANGED <<clients, req>>
    /\ UNCHANGED jobVars
    /\ UNCHANGED svcVars

\* The handler of caller c sends a request through the client it was given.
Send(c) ==
    /\ callers[c].pc = "ready"
    /\ callers[c].sent < MaxSends
    /\ callers' = [callers EXCEPT ![c].sent = callers[c].sent + 1]
    /\ UNCHANGED <<clients, objects, req>>
    /\ UNCHANGED jobVars
    /\ UNCHANGED svcVars

\* The caller returns: its reference is gone.
Release(c) ==
    /\ callers[c].pc = "ready"
    /\ callers' = [callers EXCEPT ![c] = IdleCaller]
    /\ UNCHANGED <<clients, objects, req>>
    /\ UNCHANGED jobVars
    /\ UNCHANGED svcVars

\* ------------------------------------------------ VghClient.safe_request

\* CRAWLER_CONFIG.max_retries
max_retries == 3

\* CRAWLER_CONFIG.retryable_status_codes
retryable_status_codes == {408, 429, 500, 502, 503, 504}

\* The statuses safe_request takes for an expired session.
expired_status_codes == {401, 403}

\* The pages whose name in the final URL means an expired session.
expired_urls == {"sess_exceed.php", "login.php"}

\* The exceptions safe_request takes for a network error.
NetworkErrors == {"TimeoutException", "ConnectError"}

\* What the send of an attempt ends in: an httpx.Response with its status and
\* the page of its final URL, or an exception of some type.
Response(status_code, url) ==
    [ type |-> "Response", status_code |-> status_code, url |-> url ]

Raised(type) == [ type |-> type, status_code |-> 0, url |-> "" ]

\* No response and no exception.
Nothing == Raised("")

\* The answers of the external system to one send.
Outcomes ==
    { Response(200, "page"), Response(404, "page"), Response(401, "page"),
      Response(403, "page"), Response(200, "login.php"), Response(503, "page"),
      Raised("TimeoutException"), Raised("ConnectError"), Raised("ValueError") }

\* A variant of Classify that takes an expired session for a retryable failure:
\* no re-login.
ClassifyExpiredAsRetry(o) ==
    IF o.type = "Response"
    THEN IF o.status_code \in expired_status_codes THEN "retry"
         ELSE IF o.url \in expired_urls THEN "retry"
         ELSE IF o.status_code \in retryable_status_codes THEN "retry"
         ELSE "return"
    ELSE IF o.type \in NetworkErrors THEN "network"
    ELSE "raise"

\* What safe_request does with the outcome of a send, in the order of its
\* checks: "expired" (re-login and continue), "retry" (continue), "return",
\* "network" (remember the exception and continue), "raise".
Classify(o) ==
    IF o.type = "Response"
    THEN IF o.status_code \in expired_status_codes THEN "expired"
         ELSE IF o.url \in expired_urls THEN "expired"
         ELSE IF o.status_code \in retryable_status_codes THEN "retry"
         ELSE "return"
    ELSE IF o.type \in NetworkErrors THEN "network"
    ELSE "raise"

\* The VghClient whose safe_request is called: the first object constructed.
Self == 1

\* An entry of the record of a call: what happened, in which attempt, and the
\* outcome of the send for a "got" entry.
Event(ev, attempt, o) == [ ev |-> ev, attempt |-> attempt, o |-> o ]

\* What a call of safe_request ended in: kind "response" with the response
\* returned, "error" with the exception re-raised, or "exhausted", the
\* Exception raised after the loop, whose __cause__ is last_exception.
Ending(kind, value, cause) == [ kind |-> kind, value |-> value, cause |-> cause ]

NoEnding == Ending("none", {}, {})

\* No call of safe_request is in progress or has been made.
IdleRequest ==
    [ pc |-> "idle", attempt |-> 0, last_exception |-> {}, log |-> <<>>,
      delays |-> <<>>, outcome |-> NoEnding ]

\* CrawlerConfig, the times in tenths of a second.
rate_limit_min == 6
rate_limit_max == 12
retry_base_delay == 10
retry_max_delay == 300
retry_exponential_base == 2

\* A variant of the backoff that counts the exponent from the attempt itself.
backoff_delay_from_attempt(attempt) ==
    LET raw == retry_base_delay * retry_exponential_base ^ attempt
    IN IF raw < retry_max_delay THEN raw ELSE retry_max_delay

\* min(retry_base_delay * retry_exponential_base ** (attempt - 1),
\*     retry_max_delay)
backoff_delay(attempt) ==
    LET raw == retry_base_delay * retry_exponential_base ^ (attempt - 1)
    IN IF raw < retry_max_delay THEN raw ELSE retry_max_delay

\* The sleep an attempt starts with, as the range its length is drawn from:
\* rate_limit for attempt 0, and for a later attempt the backoff delay times
\* random.uniform(0.5, 1.5), retry_jitter being True.
Delay(attempt) ==
    IF attempt = 0
    THEN [ attempt |-> attempt, kind |-> "rate_limit",
           low |-> rate_limit_min, high |-> rate_limit_max ]
    ELSE [ attempt |-> attempt, kind |-> "backoff",
           low |-> (backoff_delay(attempt) * 5) \div 10,
           high |-> (backoff_delay(attempt) * 15) \div 10 ]

\* The frame r at the top of the iteration for this attempt, asleep.
Asleep(r, attempt) ==
    [r EXCEPT !.pc = "sleep", !.attempt = attempt,
              !.delays = Append(@, Delay(attempt))]

\* A variant of Exhausted that ends the loop one attempt later, as if an
\* attempt had not been counted.
ExhaustedOneLater(attempt) == attempt > max_retries + 1

\* range(max_retries + 1) has no attempt of this number.
Exhausted(attempt) == attempt > max_retries

\* `continue`: the next attempt of the loop, which starts with its delay, or
\* the raise after the loop.
Continue(r) ==
    IF Exhausted(r.attempt + 1)
    THEN [r EXCEPT !.pc = "raised",
                   !.outcome = Ending("exhausted", {}, r.last_exception)]
    ELSE Asleep(r, r.attempt + 1)

\* The record with one more entry.
Logged(r, ev, o) == [r EXCEPT !.log = Append(r.log, Event(ev, r.attempt, o))]

\* A handler calls safe_request: attempt 0 starts with the rate_limit delay.
Call ==
    /\ req.pc \in {"idle", "returned", "raised"}
    /\ req' = Asleep(IdleRequest, 0)
    /\ UNCHANGED <<clients, objects, callers>>
    /\ UNCHANGED jobVars
    /\ UNCHANGED svcVars

\* The delay of the attempt is over: the request is sent.
Wake ==
    /\ req.pc = "sleep"
    /\ req' = [Logged(req, "send", Nothing) EXCEPT !.pc = "sending"]
    /\ UNCHANGED <<clients, objects, callers>>
    /\ UNCHANGED jobVars
    /\ UNCHANGED svcVars

\* The send ended in outcome o. An expired session resets the flags and calls
\* ensure_eip, which suspends in its first login step.
Respond(o) ==
    /\ req.pc = "sending"
    /\ LET r == Logged(req, "got", o)
           c == Classify(o)
       IN
       CASE c = "expired" ->
              LET reset == ResetFlags(objects[Self])
                  step == EnsureEipEntry(reset)
              IN /\ objects' = [objects EXCEPT ![Self] = reset]
                 /\ req' = IF step = "return_true"
                           THEN Continue(Logged(r, "reset", Nothing))
                           ELSE [Logged(r, "reset", Nothing) EXCEPT !.pc = step]
         [] c = "retry" ->
              /\ req' = Continue(r)
              /\ objects' = objects
         [] c = "network" ->
              /\ req' = Continue([r EXCEPT !.last_exception =
                                    {[type |-> o.type, attempt |-> r.attempt]}])
              /\ objects' = objects
         [] c = "raise" ->
              /\ req' = [r EXCEPT !.pc = "raised",
                                  !.outcome = Ending("error", {o}, {})]
              /\ objects' = objects
         [] c = "return" ->
              /\ req' = [r EXCEPT !.pc = "returned",
                                  !.outcome = Ending("response", {o}, {})]
              /\ objects' = objects
    /\ UNCHANGED <<clients, callers>>
    /\ UNCHANGED jobVars
    /\ UNCHANGED svcVars

\* _login_eip returned to the ensure_eip that _handle_session_expired called.
\* safe_request does not look at what ensure_eip returns.
ExpiredLoginDone(ok) ==
    /\ req.pc = "login_eip"
    /\ IF ok
       THEN LET client == AfterLoginEip(objects[Self])
                r == Logged(req, "login_ok", Nothing)
            IN /\ objects' = [objects EXCEPT ![Self] = client]
               /\ req' = IF EnsureEipAfterLogin(client) = "return_true"
                         THEN Continue(r)
                         ELSE [r EXCEPT !.pc = "init_drweb"]
       ELSE /\ objects' = objects
            /\ req' = Continue(Logged(req, "login_failed", Nothing))
    /\ UNCHANGED <<clients, callers>>
    /\ UNCHANGED jobVars
    /\ UNCHANGED svcVars

\* _init_drweb returned to the ensure_eip that _handle_session_expired called.
ExpiredDrwebDone(ok) ==
    /\ req.pc = "init_drweb"
    /\ IF ok
       THEN /\ objects' = [objects EXCEPT ![Self] = AfterInitDrweb(objects[Self])]
            /\ req' = Continue(Logged(req, "drweb_ok", Nothing))
       ELSE /\ objects' = objects
            /\ req' = Continue(Logged(req, "drweb_failed", Nothing))
    /\ UNCHANGED <<clients, callers>>
    /\ UNCHANGED jobVars
    /\ UNCHANGED svcVars

\* ----------------------------------------- CacheManager called on its own

\* Largest reading of the wall clock in the behaviours where days pass.
MaxHours == 72

\* The hours between two readings of the clock, where days pass.
ElapseHours == {24}

\* No call was made yet. (The record of a call names the method, its
\* arguments and what it returned.)
NoCall == [ op |-> "none" ]

\* Days pass.
Elapse(h) ==
    /\ now + h <= MaxHours
    /\ now' = now + h
    /\ UNCHANGED <<jobs, runner, nops, lastMark>>
    /\ UNCHANGED netVars
    /\ UNCHANGED svcVars

\* A call of CacheManager that leaves the directory files, recorded as call.
CacheStep(files, call) ==
    /\ cache' = files
    /\ ret' = call
    /\ UNCHANGED <<registry, retry, auth, login>>
    /\ UNCHANGED jobVars
    /\ UNCHANGED netVars

CacheStage(task_id, params, data, target_info) ==
    /\ minted < MaxCacheIds
    /\ LET res == save_cache(cache, minted, task_id, params, data,
                             target_info, now)
       IN /\ minted' = res.minted
          /\ CacheStep(res.cache,
                       [ op |-> "save_cache", task_id |-> task_id,
                         params |-> params, data |-> data,
                         target_info |-> target_info,
                         cache_id |-> res.value ])

CacheGet(cache_id) ==
    /\ LET res == get_cache(cache, cache_id, now) IN
       CacheStep(res.cache,
                 [ op |-> "get_cache", cache_id |-> cache_id,
                   found |-> res.value ])
    /\ UNCHANGED minted

CacheDelete(cache_id) ==
    /\ LET res == delete_cache(cache, cache_id) IN
       CacheStep(res.cache,
                 [ op |-> "delete_cache", cache_id |-> cache_id,
                   ok |-> res.value ])
    /\ UNCHANGED minted

CacheSweep ==
    /\ LET res == cleanup_expired(cache, now) IN
       CacheStep(res.cache, [ op |-> "cleanup_expired", count |-> res.value ])
    /\ UNCHANGED minted

CacheList(task_id) ==
    /\ \E order \in ListOrders(cache, task_id, now) :
          LET res == list_caches(cache, task_id, now, order) IN
          CacheStep(res.cache,
                    [ op |-> "list_caches", task_id |-> task_id,
                      list |-> res.value ])
    /\ UNCHANGED minted

\* --------------------------------- DashboardBedTask.run: the publish phase

\* Largest number of target sheets of one run.
MaxTargets == 2

\* Sheet ids of the targets.
SheetIds == 1..MaxTargets

\* The target lists a run is given by its parameter or the settings.
TargetLists ==
    UNION { { t \in [1..n -> SheetIds] : \A i, k \in 1..n : i # k => t[i] # t[k] }
            : n \in 0..MaxTargets }

\* A variant of the test made after the loop that asks for every target.
PublishedAll(targets, success_count) == success_count = Len(targets)

\* if success_count > 0: the staged entry is deleted.
PublishedAny(targets, success_count) == success_count > 0

\* DashboardBedTask.run from the choice of targets to its return, for the
\* rows final_df; it has no await after save_cache. service tells whether
\* get_gsheet_service returned, written[k] whether target k was updated
\* without an exception. The directory it leaves, the ids handed out, and how
\* the run ended.
publish_bed(files, n, targets, service, written, t) ==
    IF targets = <<>>
    THEN [ cache |-> files, minted |-> n, status |-> "error", staged |-> {},
           cache_id |-> NoInt ]
    ELSE LET saved == save_cache(files, n, BED, NativeDict("date", 1),
                                 IndexDict(1), NativeDict("targets", targets),
                                 t)
             success_count == Cardinality({k \in DOMAIN targets : written[k]})
         IN
         IF ~service
         THEN [ cache |-> saved.cache, minted |-> saved.minted,
                status |-> "raised", staged |-> {saved.value},
                cache_id |-> NoInt ]
         ELSE IF PublishedAny(targets, success_count)
         THEN [ cache |-> delete_cache(saved.cache, saved.value).cache,
                minted |-> saved.minted, status |-> "success",
                staged |-> {saved.value}, cache_id |-> NoInt ]
         ELSE [ cache |-> saved.cache, minted |-> saved.minted,
                status |-> "partial_success", staged |-> {saved.value},
                cache_id |-> Some(saved.value) ]

\* One run of the publish phase.
BedPublish(targets, service, written) ==
    /\ minted < MaxCacheIds
    /\ LET res == publish_bed(cache, minted, targets, service, written, now)
       IN /\ minted' = res.minted
          /\ CacheStep(res.cache,
                       [ op |-> "dashboard_bed", targets |-> targets,
                         service |-> service, written |-> written,
                         staged |-> res.staged, status |-> res.status,
                         result_cache_id |-> res.cache_id ])

\* ------------------------------------------------- JobManager.list_jobs

\* The ids uuid4 gives the jobs of the behaviours in which jobs are listed,
\* in the order the jobs are created, which is the order of _jobs.values().
ListIds == <<"j1", "j2", "j3">>

\* Largest limit list_jobs is called with (its default is 20).
MaxLimit == 3

\* The ids in seq whose job has the status.
WithStatus(tbl, seq, status) ==
    LET Matches(j) == tbl[j].status = status IN SelectSeq(seq, Matches)

\* seq without its element at position i.
Without(seq, i) == SubSeq(seq, 1, i - 1) \o SubSeq(seq, i + 1, Len(seq))

\* A variant of the sort that leaves the jobs in the order of the table.
SortedAsStored(tbl, seq) == seq

\* jobs.sort(key=lambda x: x.created_at, reverse=True): the latest first, jobs
\* created at one time in the order they had.
RECURSIVE SortedNewestFirst(_, _)
SortedNewestFirst(tbl, seq) ==
    IF seq = <<>> THEN <<>>
    ELSE LET first == CHOOSE i \in DOMAIN seq :
                        /\ \A k \in DOMAIN seq :
                              tbl[seq[i]].created_at >= tbl[seq[k]].created_at
                        /\ \A k \in 1..(i - 1) :
                              tbl[seq[k]].created_at < tbl[seq[i]].created_at
         IN <<seq[first]>> \o SortedNewestFirst(tbl, Without(seq, first))

\* seq[:limit]
SliceTo(seq, limit) ==
    IF limit >= 0
    THEN SubSeq(seq, 1, IF limit < Len(seq) THEN limit ELSE Len(seq))
    ELSE SubSeq(seq, 1, IF Len(seq) + limit > 0 THEN Len(seq) + limit ELSE 0)

\* JobManager.list_jobs: the jobs returned, by id.
list_jobs(tbl, status, limit) ==
    LET InTable(j) == j \in DOMAIN tbl
        all == SelectSeq(ListIds, InTable)
        matching == IF status # None THEN WithStatus(tbl, all, status) ELSE all
    IN SliceTo(SortedNewestFirst(tbl, matching), limit)

\* create_job called for the next job.
ListCreate(task_id) ==
    /\ Cardinality(DOMAIN jobs) < Len(ListIds)
    /\ jobs' = create_job(jobs, ListIds[Cardinality(DOMAIN jobs) + 1], task_id,
                          now)
    /\ UNCHANGED <<now, runner, nops, lastMark>>
    /\ UNCHANGED netVars
    /\ UNCHANGED svcVars

\* update_job called with a status, as run_crawler_job calls it.
ListUpdate(job_id, status) ==
    /\ job_id \in DOMAIN jobs
    /\ jobs' = update_job(jobs, job_id, status, NoResult, None, NoInt, None, now)
    /\ UNCHANGED <<now, runner, nops, lastMark>>
    /\ UNCHANGED netVars
    /\ UNCHANGED svcVars

\* list_jobs(status, limit) called, as GET /jobs calls it.
ListJobs(status, limit) ==
    /\ ret' = [ op |-> "list_jobs", status |-> status, limit |-> limit,
                value |-> list_jobs(jobs, status, limit) ]
    /\ UNCHANGED <<cache, minted, registry, retry, auth, login>>
    /\ UNCHANGED jobVars
    /\ UNCHANGED netVars

\* ------------------------------------- ensure_eip and ensure_cks, called

\* ensure_cks from its entry to its await or return.
EnsureCksEntry(client) ==
    IF client.is_cks_logged_in THEN "return_true" ELSE "login_cks"

\* ensure_cks after _login_cks returned True: the flag is set.
AfterLoginCks(client) == [client EXCEPT !.is_cks_logged_in = TRUE]

\* The frame of a coroutine that has called nothing yet. A frame holds the
\* step the call is suspended in, the method called, the number of login steps
\* the call has started, each of which sends requests, and what it returned.
IdleAuth == [ pc |-> "idle", method |-> "none", sent |-> 0, result |-> "none" ]

\* The frame of a call from its entry on, entry being where the method goes.
Entered(method, entry) ==
    IF entry = "return_true"
    THEN [ pc |-> "returned", method |-> method, sent |-> 0,
           result |-> "true" ]
    ELSE [ pc |-> entry, method |-> method, sent |-> 1, result |-> "none" ]

\* The frame f of a call that returns value.
Returned(f, value) == [f EXCEPT !.pc = "returned", !.result = value]

\* A step of the call of coroutine c on the client that leaves the client as
\* client and the frame f.
AuthStep(c, client, f) ==
    /\ objects' = [objects EXCEPT ![Self] = client]
    /\ auth' = [auth EXCEPT ![c] = f]
    /\ UNCHANGED <<clients, callers, req>>
    /\ UNCHANGED <<cache, minted, registry, retry, login, ret>>
    /\ UNCHANGED jobVars

\* Coroutine c calls ensure_eip or ensure_cks.
AuthCall(c, method) ==
    /\ auth[c].pc \in {"idle", "returned"}
    /\ AuthStep(c, objects[Self],
                Entered(method,
                        IF method = "ensure_eip"
                        THEN EnsureEipEntry(objects[Self])
                        ELSE EnsureCksEntry(objects[Self])))

\* A request of coroutine c finds the session expired: _handle_session_expired
\* resets the flags and calls ensure_eip.
AuthExpired(c) ==
    /\ auth[c].pc \in {"idle", "returned"}
    /\ AuthStep(c, ResetFlags(objects[Self]),
                Entered("ensure_eip", EnsureEipEntry(ResetFlags(objects[Self]))))

\* _login_eip returned to the ensure_eip of coroutine c.
AuthLoginEipDone(c, ok) ==
    /\ auth[c].pc = "login_eip"
    /\ IF ok
       THEN LET client == AfterLoginEip(objects[Self]) IN
            AuthStep(c, client,
              IF EnsureEipAfterLogin(client) = "init_drweb"
              THEN [auth[c] EXCEPT !.pc = "init_drweb", !.sent = @ + 1]
              ELSE Returned(auth[c], "true"))
       ELSE AuthStep(c, objects[Self], Returned(auth[c], "false"))

\* _init_drweb returned to the ensure_eip of coroutine c.
AuthInitDrwebDone(c, ok) ==
    /\ auth[c].pc = "init_drweb"
    /\ IF ok
       THEN AuthStep(c, AfterInitDrweb(objects[Self]), Returned(auth[c], "true"))
       ELSE AuthStep(c, objects[Self], Returned(auth[c], "false"))

\* _login_cks returned to the ensure_cks of coroutine c.
AuthLoginCksDone(c, ok) ==
    /\ auth[c].pc = "login_cks"
    /\ IF ok
       THEN AuthStep(c, AfterLoginCks(objects[Self]), Returned(auth[c], "true"))
       ELSE AuthStep(c, objects[Self], Returned(auth[c], "false"))

\* ---------------------------------------------------- VghClient._login_eip

\* range(5): the number of redirects _login_eip follows.
redirect_limit == 5

\* The text of a page, as far as _login_eip reads it: one of the two messages
\* of a refused login, no window.location redirect, or the url of the first
\* redirect in it.
BadCredentials == "bad_credentials"
AccountDisabled == "account_disabled"
NoRedirect == "no_redirect"

base_url == "https://eip.vghtpe.gov.tw"

\* Redirect urls: starting with a slash, absolute, and relative.
RootedUrls == {"/login.php", "/index.php"}
AbsoluteUrls == {"https://eip.vghtpe.gov.tw/main.php"}
RelativeUrls == {"login.php?token=t1"}
RedirectUrls == RootedUrls \union AbsoluteUrls \union RelativeUrls

\* "login.php" in redirect_url and "token" not in redirect_url
ToLogin(content) ==
    /\ content \in {"/login.php", "login.php?token=t1"}
    /\ content \notin {"login.php?token=t1"}

\* The url requested for a redirect, as the parts it is put together from.
full_url(redirect_url) ==
    IF redirect_url \in RootedUrls THEN <<base_url, redirect_url>>
    ELSE IF redirect_url \in AbsoluteUrls THEN <<redirect_url>>
    ELSE <<base_url, "/", redirect_url>>

Pages == {BadCredentials, AccountDisabled, NoRedirect} \union RedirectUrls

\* The pages a redirect is followed to have no login form to refuse.
FollowedPages == {NoRedirect} \union RedirectUrls

\* The frame of a _login_eip call not made yet: the step it is suspended in,
\* the loop variable i, the pages received (content, in order), the urls
\* requested for the redirects and the value returned.
IdleLogin ==
    [ pc |-> "idle", i |-> 0, pages |-> <<>>, followed |-> <<>>,
      result |-> "none" ]

\* The two tests made once on the answer to the login form.
Refused(content) == content \in {BadCredentials, AccountDisabled}

\* A variant of the loop that looks at the page the last redirect led to.
RedirectLoopLooksAtLast(content, i) ==
    IF content \in RedirectUrls /\ ToLogin(content) THEN "return_false"
    ELSE IF i >= redirect_limit \/ content \notin RedirectUrls
         THEN "return_true"
    ELSE "follow"

\* for i in range(5), from the top of iteration i with content in hand to
\* the next await or return.
RedirectLoop(content, i) ==
    IF i >= redirect_limit THEN "return_true"
    ELSE IF content \notin RedirectUrls THEN "return_true"
    ELSE IF ToLogin(content) THEN "return_false"
    ELSE "follow"

\* A step of _login_eip that leaves the frame f; when the call returns, the
\* ensure_eip that awaited it sets the flag on True and returns on False.
LoginStep(f) ==
    /\ login' = f
    /\ objects' = IF f.pc = "returned" /\ f.result = "true"
                  THEN [objects EXCEPT ![Self] = AfterLoginEip(@)]
                  ELSE objects
    /\ UNCHANGED <<clients, callers, req>>
    /\ UNCHANGED <<cache, minted, registry, retry, auth, ret>>
    /\ UNCHANGED jobVars

\* The frame of the call from the top of iteration i of the loop on.
LoginLoop(f, i) ==
    LET content == f.pages[Len(f.pages)]
        nxt == RedirectLoop(content, i)
    IN IF nxt = "follow"
       THEN [f EXCEPT !.pc = "follow", !.i = i,
                      !.followed = Append(@, full_url(content))]
       ELSE [f EXCEPT !.pc = "returned", !.i = i,
                      !.result = IF nxt = "return_true" THEN "true" ELSE "false"]

\* ensure_eip finds the EIP flag unset and calls _login_eip, which gets the
\* login page unless a credential is missing.
LoginCall ==
    /\ login.pc \in {"idle", "returned"}
    /\ EnsureEipEntry(objects[Self]) = "login_eip"
    /\ LoginStep(IF objects[Self].eip_id = "" \/ objects[Self].eip_psw = ""
                 THEN [IdleLogin EXCEPT !.pc = "returned", !.result = "false"]
                 ELSE [IdleLogin EXCEPT !.pc = "get_login"])

\* session.get of the login page returned or raised; the form is posted.
LoginPageGot(raised) ==
    /\ login.pc = "get_login"
    /\ LoginStep(IF raised
                 THEN [login EXCEPT !.pc = "returned", !.result = "false"]
                 ELSE [login EXCEPT !.pc = "post"])

\* session.post of the form raised.
LoginPostRaised ==
    /\ login.pc = "post"
    /\ LoginStep([login EXCEPT !.pc = "returned", !.result = "false"])

\* session.post of the form returned a page with this content.
LoginPosted(content) ==
    /\ login.pc = "post"
    /\ LET f == [login EXCEPT !.pages = <<content>>] IN
       LoginStep(IF Refused(content)
                 THEN [f EXCEPT !.pc = "returned", !.result = "false"]
                 ELSE LoginLoop(f, 0))

\* session.get of the redirect raised.
LoginFollowRaised ==
    /\ login.pc = "follow"
    /\ LoginStep([login EXCEPT !.pc = "returned", !.result = "false"])

\* session.get of the redirect returned a page with this content.
LoginFollowed(content) ==
    /\ login.pc = "follow"
    /\ LoginStep(LoginLoop([login EXCEPT !.pages = Append(@, content)],
                           login.i + 1))

\* A request finds the session expired: the flags are reset.
LoginExpired ==
    /\ login.pc = "returned"
    /\ objects[Self].is_eip_logged_in
    /\ objects' = [objects EXCEPT ![Self] = ResetFlags(@)]
    /\ UNCHANGED <<clients, callers, req>>
    /\ UNCHANGED svcVars
    /\ UNCHANGED jobVars

\* ------------------------------------------------- the cache endpoints

\* No retry_cache_upload request was made yet.
IdleRetry ==
    [ pc |-> "idle", cache_id |-> 0, content |-> {}, response |-> "none" ]

\* A step of retry_cache_upload that leaves the directory files and frame f.
RetryStep(files, f) ==
    /\ cache' = files
    /\ retry' = f
    /\ UNCHANGED <<minted, registry, auth, login, ret>>
    /\ UNCHANGED jobVars
    /\ UNCHANGED netVars

\* retry_cache_upload(cache_id) up to its await: without the entry it answers
\* 404, with it it starts upload_from_cache on the content loaded.
RetryStart(cache_id) ==
    /\ retry.pc \in {"idle", "done"}
    /\ LET got == get_cache(cache, cache_id, now) IN
       RetryStep(got.cache,
         IF got.value = {}
         THEN [ pc |-> "done", cache_id |-> cache_id, content |-> {},
                response |-> "404" ]
         ELSE [ pc |-> "uploading", cache_id |-> cache_id,
                content |-> got.value, response |-> "none" ])

\* upload_from_cache returned, and the entry is deleted, or raised, and the
\* endpoint answers status error.
RetryDone(ok) ==
    /\ retry.pc = "uploading"
    /\ IF ok
       THEN RetryStep(delete_cache(cache, retry.cache_id).cache,
                      [retry EXCEPT !.pc = "done", !.response = "success"])
       ELSE RetryStep(cache,
                      [retry EXCEPT !.pc = "done", !.response = "error"])

Init ==
    /\ jobs = << >>
    /\ now = 0
    /\ runner = [j \in JobIds |-> IdleRunner]
    /\ nops = 0
    /\ lastMark = <<>>
    /\ clients = << >>
    /\ objects = << >>
    /\ callers = [c \in Callers |-> IdleCaller]
    /\ req = IdleRequest
    /\ cache = << >>
    /\ minted = 0
    /\ registry = LoadedTasks
    /\ retry = IdleRetry
    /\ auth = [c \in Callers |-> IdleAuth]
    /\ login = IdleLogin
    /\ ret = NoCall

ApiNext ==
    \/ Tick
    \/ \E t \in TaskIds : ApiCreate(t)
    \/ \E j \in JobIds, c \in UpdateCalls : ApiUpdate(j, c)
    \/ \E j \in JobIds : ApiCancel(j)
    \/ \E j \in JobIds, n \in 0..MaxItems : ApiSetTotal(j, n)
    \/ \E j \in JobIds, k \in Keys : ApiMark(j, k, "msg")

ApiSpec == Init /\ [][ApiNext]_vars

Next ==
    \/ Tick
    \/ \E t \in TaskIds : \E items \in Batches(t) : Submit(t, items)
    \/ \E j \in JobIds : Cancel(j)
    \/ \E j \in JobIds : Pickup(j)
    \/ \E j \in JobIds, c \in BOOLEAN : Start(j, c)
    \/ \E j \in JobIds,
          o \in {"ok", "login_failed", "invalid_params", "raised"} :
          LoginDone(j, o)
    \/ \E j \in JobIds, o \in {"ok", "early_return", "raised"} : HandlerPrep(j, o)
    \/ \E j \in JobIds, o \in {"ok", "failed", "invalid"} : ItemDone(j, o)
    \/ \E j \in JobIds, o \in {"cells", "no_cells", "raised"} : StageDone(j, o)
    \/ \E j \in JobIds, w \in BOOLEAN : WriteDone(j, w)

Spec == Init /\ [][Next]_vars

\* run_crawler_job is started again for an existing job whose run has ended,
\* with a batch: the job keeps its state, ledger included.
Resume(job_id, items) ==
    /\ job_id \in DOMAIN jobs
    /\ runner[job_id].pc = "done"
    /\ runner' = [runner EXCEPT ![job_id] =
                    [ pc |-> "queued", task |-> runner[job_id].task,
                      items |-> items, i |-> 0, success |-> 0,
                      ledger0 |-> {}, fetched |-> <<>>,
                      cache_id |-> NoInt, fallback |-> FALSE ]]
    /\ UNCHANGED <<jobs, now, nops, lastMark>>
    /\ UNCHANGED netVars
    /\ UNCHANGED svcVars

\* run_task for a StatsFeeTask batch, the first job of the process.
SubmitFirst(items) ==
    /\ DOMAIN jobs = {}
    /\ Submit(FEE, items)

\* One StatsFeeTask job that is run, and run again after its run has ended.
ResumeNext ==
    \/ \E items \in Batches(FEE) : SubmitFirst(items)
    \/ \E j \in JobIds, items \in Batches(FEE) : Resume(j, items)
    \/ \E j \in JobIds : Pickup(j)
    \/ \E j \in JobIds, c \in BOOLEAN : Start(j, c)
    \/ \E j \in JobIds,
          o \in {"ok", "login_failed", "invalid_params", "raised"} :
          LoginDone(j, o)
    \/ \E j \in JobIds, o \in {"ok", "early_return", "raised"} : HandlerPrep(j, o)
    \/ \E j \in JobIds, o \in {"ok", "failed", "invalid"} : ItemDone(j, o)
    \/ \E j \in JobIds, o \in {"cells", "no_cells", "raised"} : StageDone(j, o)
    \/ \E j \in JobIds, w \in BOOLEAN : WriteDone(j, w)

ResumeSpec == Init /\ [][ResumeNext]_vars

\* The session pool and its callers.
PoolNext ==
    \/ \E c \in Callers, u \in EipIds, p \in Passwords : Acquire(c, u, p)
    \/ \E c \in Callers, ok \in BOOLEAN : LoginEipDone(c, ok)
    \/ \E c \in Callers, ok \in BOOLEAN : InitDrwebDone(c, ok)
    \/ \E c \in Callers : Send(c)
    \/ \E c \in Callers : Release(c)

PoolSpec == Init /\ [][PoolNext]_vars

\* CacheManager called in any order, days passing between the calls.
CacheNext ==
    \/ \E h \in ElapseHours : Elapse(h)
    \/ \E t \in CacheTasks, p \in CacheParams, ti \in CacheTargets :
          \E d \in CachePayloads(t) : CacheStage(t, p, d, ti)
    \/ \E id \in CacheIds : CacheGet(id)
    \/ \E id \in CacheIds : CacheDelete(id)
    \/ CacheSweep
    \/ \E t \in CacheTasks \union {None} : CacheList(t)

CacheSpec == Init /\ [][CacheNext]_vars

\* The first job of the process, a StatsFeeTask job of one item, has fetched
\* its item and left its loop.
PublishInit ==
    /\ jobs = progress_callback(
                mark_item_completed(
                  set_total_items(
                    update_job(create_job(<< >>, "j1", FEE, 0), "j1", RUNNING,
                               NoResult, None, NoInt, None, 0),
                    "j1", 1),
                  "j1", 1, "msg"),
                "j1", 90)
    /\ now = 0
    /\ runner = [j \in JobIds |->
                   IF j = "j1"
                   THEN [ pc |-> "stage", task |-> FEE, items |-> <<1>>,
                          i |-> 1, success |-> 0, ledger0 |-> {},
                          fetched |-> <<1>>, cache_id |-> NoInt,
                          fallback |-> FALSE ]
                   ELSE IdleRunner]
    /\ nops = 0
    /\ lastMark = <<>>
    /\ clients = << >>
    /\ objects = << >>
    /\ callers = [c \in Callers |-> IdleCaller]
    /\ req = IdleRequest
    /\ cache = << >>
    /\ minted = 0
    /\ registry = LoadedTasks
    /\ retry = IdleRetry
    /\ auth = [c \in Callers |-> IdleAuth]
    /\ login = IdleLogin
    /\ ret = NoCall

\* The write phase of that job, while other runs stage their data, the cache
\* endpoints are called and days pass.
PublishNext ==
    \/ \E h \in ElapseHours : Elapse(h)
    \/ \E j \in JobIds, o \in {"cells", "no_cells", "raised"} : StageDone(j, o)
    \/ \E j \in JobIds, w \in BOOLEAN : WriteDone(j, w)
    \/ \E t \in CacheTasks, p \in CacheParams, ti \in CacheTargets :
          \E d \in CachePayloads(t) : CacheStage(t, p, d, ti)
    \/ \E id \in CacheIds : RetryStart(id)
    \/ \E ok \in BOOLEAN : RetryDone(ok)
    \/ \E id \in CacheIds : CacheDelete(id)
    \/ CacheSweep

PublishSpec == PublishInit /\ [][PublishNext]_vars

\* The tasks register is called with.
RegArgs ==
    UNION { { TaskArg("function", id, o, TRUE),
              TaskArg("class", id, o, TRUE),
              TaskArg("class", id, o, FALSE),
              TaskArg("instance", id, o, TRUE) } : id \in RegIds, o \in 1..2 }
        \union {TaskArg("other", None, 1, TRUE)}

\* TaskRegistry.register(x)
Register(x) ==
    /\ registry' = register(registry, x)
    /\ ret' = [ op |-> "register", arg |-> x ]
    /\ UNCHANGED <<cache, minted, retry, auth, login>>
    /\ UNCHANGED jobVars
    /\ UNCHANGED netVars

\* TaskRegistry.register called in any order with any task.
RegistryNext == \E x \in RegArgs : Register(x)

RegistrySpec == Init /\ [][RegistryNext]_vars

\* The tasks registered while jobs are run: a decorated function, the class
\* of IviBatchSubmitTask, another instance of StatsFeeTask.
DispatchArgs ==
    { TaskArg("function", FN, 1, TRUE),
      TaskArg("class", IVI, 2, TRUE),
      TaskArg("instance", FEE, 2, TRUE) }

\* run_task for the first job of the process.
SubmitOne(task_id, items) ==
    /\ DOMAIN jobs = {}
    /\ Submit(task_id, items)

\* Tasks are registered, and one job is submitted for a registered task and
\* run.
DispatchNext ==
    \/ \E x \in DispatchArgs : Register(x)
    \/ \E t \in RegIds : \E items \in Batches(t) : SubmitOne(t, items)
    \/ \E j \in JobIds : Pickup(j)
    \/ \E j \in JobIds, c \in BOOLEAN : Start(j, c)
    \/ \E j \in JobIds,
          o \in {"ok", "login_failed", "invalid_params", "raised"} :
          LoginDone(j, o)
    \/ \E j \in JobIds, o \in {"ok", "early_return", "raised"} : HandlerPrep(j, o)
    \/ \E j \in JobIds, o \in {"ok", "failed", "invalid"} : ItemDone(j, o)
    \/ \E j \in JobIds, o \in {"cells", "no_cells", "raised"} : StageDone(j, o)
    \/ \E j \in JobIds, w \in BOOLEAN : WriteDone(j, w)

DispatchSpec == Init /\ [][DispatchNext]_vars

\* The steps of the background task of job j, what its handler raises being
\* a TypeError at times.
RunnerNext(j) ==
    \/ Pickup(j)
    \/ \E c \in BOOLEAN : Start(j, c)
    \/ \E o \in {"ok", "login_failed", "invalid_params", "raised"} :
          LoginDone(j, o)
    \/ \E o \in {"ok", "early_return", "raised", "type_error"} :
          HandlerPrep(j, o)
    \/ \E o \in {"ok", "failed", "invalid"} : ItemDone(j, o)
    \/ \E o \in {"cells", "no_cells", "raised", "type_error"} : StageDone(j, o)
    \/ \E w \in BOOLEAN : WriteDone(j, w)

\* One job is submitted and run, and cancelled at any time.
RunNext ==
    \/ Tick
    \/ \E t \in TaskIds : \E items \in Batches(t) : SubmitOne(t, items)
    \/ \E j \in JobIds : Cancel(j)
    \/ \E j \in JobIds : RunnerNext(j)

RunSpec == Init /\ [][RunNext]_vars

\* The event loop runs every background task it was given, and every await
\* of a task returns or raises.
LiveSpec == RunSpec /\ \A j \in JobIds : WF_vars(RunnerNext(j))

\* A VghClient was constructed; nothing was called on it.
RequestInit ==
    /\ jobs = << >>
    /\ now = 0
    /\ runner = [j \in JobIds |-> IdleRunner]
    /\ nops = 0
    /\ lastMark = <<>>
    /\ clients = << >>
    /\ objects = << VghClient("u1", "s1") >>
    /\ callers = [c \in Callers |-> IdleCaller]
    /\ req = IdleRequest
    /\ cache = << >>
    /\ minted = 0
    /\ registry = LoadedTasks
    /\ retry = IdleRetry
    /\ auth = [c \in Callers |-> IdleAuth]
    /\ login = IdleLogin
    /\ ret = NoCall

\* Calls of safe_request on one client by one coroutine.
RequestNext ==
    \/ Call
    \/ Wake
    \/ \E o \in Outcomes : Respond(o)
    \/ \E ok \in BOOLEAN : ExpiredLoginDone(ok)
    \/ \E ok \in BOOLEAN : ExpiredDrwebDone(ok)

RequestSpec == RequestInit /\ [][RequestNext]_vars

\* DashboardBedTask runs publish while entries are read, deleted and swept.
BedNext ==
    \/ \E h \in ElapseHours : Elapse(h)
    \/ \E targets \in TargetLists, service \in BOOLEAN :
          \E written \in [DOMAIN targets -> BOOLEAN] :
             BedPublish(targets, service, written)
    \/ \E id \in CacheIds : CacheGet(id)
    \/ \E id \in CacheIds : CacheDelete(id)
    \/ CacheSweep

BedSpec == Init /\ [][BedNext]_vars

\* Jobs are created and run while they are listed.
ListNext ==
    \/ Tick
    \/ ListCreate(FEE)
    \/ \E j \in DOMAIN jobs, st \in {RUNNING, SUCCESS} : ListUpdate(j, st)
    \/ \E st \in JobStatus \union {None}, limit \in 0..MaxLimit :
          ListJobs(st, limit)

ListSpec == Init /\ [][ListNext]_vars

\* _login_eip called by ensure_eip on one client, the server answering with
\* any page.
LoginNext ==
    \/ LoginCall
    \/ \E raised \in BOOLEAN : LoginPageGot(raised)
    \/ LoginPostRaised
    \/ \E content \in Pages : LoginPosted(content)
    \/ LoginFollowRaised
    \/ \E content \in FollowedPages : LoginFollowed(content)
    \/ LoginExpired

LoginSpec == RequestInit /\ [][LoginNext]_vars

\* ensure_eip and ensure_cks called on one client by two coroutines, their
\* requests finding the session expired at times.
AuthNext ==
    \/ \E c \in Callers, m \in {"ensure_eip", "ensure_cks"} : AuthCall(c, m)
    \/ \E c \in Callers : AuthExpired(c)
    \/ \E c \in Callers, ok \in BOOLEAN : AuthLoginEipDone(c, ok)
    \/ \E c \in Callers, ok \in BOOLEAN : AuthInitDrwebDone(c, ok)
    \/ \E c \in Callers, ok \in BOOLEAN : AuthLoginCksDone(c, ok)

AuthSpec == RequestInit /\ [][AuthNext]_vars

\* Every send ends (httpx gives up after its timeout), every login step
\* returns and every delay passes.
RequestLiveSpec == RequestSpec /\ WF_vars(RequestNext)

\* ------------------------------------------------------------- job claims

\* The jobs of the table.
Created == DOMAIN jobs

\* The integer percentage of count over total, rounded down.
ExpectedPercent(count, total) == (100 * count) \div total

IsTerminal(job) == job.status \in TerminalStatuses

\* C1: once a job's status is success, failed or cancelled, no step changes it.
C1_TerminalStatusNeverChanges ==
    [][\A j \in Created :
          IsTerminal(jobs[j]) => jobs'[j].status = jobs[j].status]_vars

\* C2: completed_at is set exactly when the status is terminal.
C2_CompletedAtIffTerminal ==
    \A j \in Created : (jobs[j].completed_at # NoInt) <=> IsTerminal(jobs[j])

\* C3: once completed_at is set, no later operation changes it.
C3_CompletedAtStampedOnce ==
    [][\A j \in Created :
          jobs[j].completed_at # NoInt
              => jobs'[j].completed_at = jobs[j].completed_at]_vars

\* C4: the status changes only from pending to running and from running to a
\* terminal status.
C4_StatusFollowsLifecycle ==
    [][\A j \in Created :
          jobs'[j].status # jobs[j].status
              => \/ jobs[j].status = PENDING /\ jobs'[j].status = RUNNING
                 \/ jobs[j].status = RUNNING /\ IsTerminal(jobs'[j])]_vars

\* C5: a job whose status is success has progress 100.
C5_SuccessHasFullProgress ==
    \A j \in Created : jobs[j].status = SUCCESS => jobs[j].progress = 100

\* C6: a step that sets a job's cancelled flag changes nothing else of the job:
\* status, progress, completed_at, result and the ledger stay as they were.
C6_CancelSetsOnlyTheFlag ==
    [][\A j \in Created :
          ~jobs[j].cancelled /\ jobs'[j].cancelled
              => /\ jobs'[j].status = jobs[j].status
                 /\ jobs'[j].progress = jobs[j].progress
                 /\ jobs'[j].completed_at = jobs[j].completed_at
                 /\ jobs'[j].result = jobs[j].result
                 /\ jobs'[j].completed_keys = jobs[j].completed_keys]_vars

\* C7: cancel_job on a job whose status is terminal changes no field of any job.
C7_CancelOfTerminalJobIsNoOp ==
    [][\A j \in Created :
          IsTerminal(jobs[j]) /\ ApiCancel(j) => jobs' = jobs]_vars

\* C8: when the handler of a batch job is busy with an item that is not the
\* last and the job's cancelled flag is set, its next step (the item's requests
\* return, the handler polls the flag) ends the run, with status cancelled and
\* progress the percentage of completed keys over total_items. The step in
\* which StatsFeeTask returns data_unavailable instead of polling is left out.
C8_CancelledBatchEndsCancelled ==
    [][\A j \in Created :
          /\ runner[j].pc = "item"
          /\ runner[j].i < Len(runner[j].items)
          /\ jobs[j].cancelled
          /\ runner'[j] # runner[j]
          /\ jobs'[j].result.status # "data_unavailable"
          => /\ runner'[j].pc = "done"
             /\ jobs'[j].status = CANCELLED
             /\ jobs'[j].progress =
                    ExpectedPercent(Cardinality(jobs'[j].completed_keys),
                            jobs'[j].total_items)
             /\ jobs'[j].progress < 100]_vars

\* C9: mark_item_completed called twice in a row with the same job and key:
\* the second call leaves the number of completed keys and the progress as the
\* first call left them.
C9_SecondMarkChangesNothing ==
    [][\A j \in Created :
          /\ nops' = nops + 1
          /\ lastMark' # <<>>
          /\ lastMark'[1] = j
          /\ lastMark'[3] = 2
          => /\ Cardinality(jobs'[j].completed_keys)
                    = Cardinality(jobs[j].completed_keys)
             /\ jobs'[j].progress = jobs[j].progress]_vars

\* A job with total_items 2 whose one key was marked twice in a row: one key
\* completed, progress 50.
C9_Witness ==
    /\ lastMark # <<>>
    /\ lastMark[3] = 2
    /\ lastMark[1] \in Created
    /\ jobs[lastMark[1]].total_items = 2
    /\ jobs[lastMark[1]].completed_keys = {lastMark[2]}
    /\ jobs[lastMark[1]].progress = 50

C11_LedgerOnlyGrows ==
    [][\A j \in Created, k \in Keys :
          is_item_completed(jobs, j, k) => is_item_completed(jobs', j, k)]_vars

\* A job on which both keys were marked, the second one just now: both are
\* reported as completed.
C11_Witness ==
    /\ lastMark # <<>>
    /\ lastMark[1] \in Created
    /\ jobs[lastMark[1]].completed_keys = Keys
    /\ \A k \in Keys : is_item_completed(jobs, lastMark[1], k)

\* The item keys of a batch.
KeysOf(items) == { items[n] : n \in 1..Len(items) }

\* The items of a batch whose key is not in the ledger C, in order.
RECURSIVE Uncompleted(_, _)
Uncompleted(items, C) ==
    IF items = <<>> THEN <<>>
    ELSE (IF Head(items) \in C THEN <<>> ELSE <<Head(items)>>)
             \o Uncompleted(Tail(items), C)

\* The run of job j is a StatsFeeTask run in its loop or past it, which found
\* a ledger that holds only keys of its batch.
ResumedRun(j) ==
    /\ runner[j].task = FEE
    /\ runner[j].pc \in {"item", "stage", "write"}
    /\ runner[j].ledger0 \subseteq KeysOf(runner[j].items)

\* C12: a StatsFeeTask run on a job whose ledger holds a subset C of the keys of
\* its batch processes, in order and each once, exactly the items whose key is
\* not in C: up to the item it is busy with while in the loop, all of them once
\* past the loop. When the run then ends in success with every processed key
\* in the ledger, the ledger is the key set of the batch and progress is 100.
C12_ResumedRunProcessesUncompleted ==
    [][\A j \in Created :
          /\ ResumedRun(j) /\ runner[j].pc = "item"
                => runner[j].fetched =
                       Uncompleted(SubSeq(runner[j].items, 1, runner[j].i),
                                   runner[j].ledger0)
          /\ ResumedRun(j) /\ runner[j].pc \in {"stage", "write"}
                => runner[j].fetched =
                       Uncompleted(runner[j].items, runner[j].ledger0)
          /\ ( /\ ResumedRun(j)
               /\ runner'[j].pc = "done"
               /\ jobs'[j].status = SUCCESS
               /\ KeysOf(runner[j].fetched) \subseteq jobs'[j].completed_keys )
                => /\ jobs'[j].completed_keys = KeysOf(runner[j].items)
                   /\ jobs'[j].progress = 100]_vars

\* A run that found key 1 of a batch of two in the ledger and processed the
\* second item alone, with success: both keys are completed when it writes.
C12_Witness ==
    \E j \in Created :
        /\ runner[j].pc = "write"
        /\ runner[j].items = <<1, 2>>
        /\ runner[j].ledger0 = {1}
        /\ runner[j].fetched = <<2>>
        /\ jobs[j].completed_keys = {1, 2}

\* C13: for a job id that is not in the table, get_job finds nothing,
\* is_cancelled and is_item_completed are false, and a call of update_job,
\* cancel_job, set_total_items or mark_item_completed leaves the table as it
\* was.
C13_MissingJobIsIgnored ==
    [][\A j \in JobIds \ Created :
          /\ get_job(jobs, j) = {}
          /\ ~is_cancelled(jobs, j)
          /\ cancel_job_result(jobs, j) = FALSE
          /\ \A k \in Keys : ~is_item_completed(jobs, j, k)
          /\ ( \/ \E c \in UpdateCalls : ApiUpdate(j, c)
               \/ ApiCancel(j)
               \/ \E n \in 0..MaxItems : ApiSetTotal(j, n)
               \/ \E k \in Keys : ApiMark(j, k, "msg") )
                => jobs' = jobs]_vars

\* Every call made so far was made on a missing job id: the table is empty
\* after the last call the model makes.
C13_Witness ==
    /\ nops = MaxOps
    /\ Created = {}

\* ----------------------------------------------------------- pool claims

\* The objects the pool refers to.
Pooled == { clients[u] : u \in DOMAIN clients }

\* C14: get_client called with the password of the client stored under the
\* user id returns that object and changes neither it nor the pool; called
\* with another password (or with none stored) it returns a newly constructed
\* object, which is then the one object stored under the user id. Every pooled
\* object is stored under its own user id, and an object that is not in the
\* pool never gets back into it, so no later call returns it.
C14_AcquireReusesOrReplaces ==
    [][\A c \in Callers, u \in EipIds, p \in Passwords :
          Acquire(c, u, p) =>
            LET got == TheInt(callers'[c].client) IN
            /\ IF u \in DOMAIN clients /\ objects[clients[u]].eip_psw = p
               THEN /\ got = clients[u]
                    /\ objects' = objects
                    /\ clients' = clients
               ELSE /\ got \notin 1..Len(objects)
                    /\ objects'[got].eip_id = u
                    /\ objects'[got].eip_psw = p
                    /\ \A o \in 1..Len(objects) : objects'[o] = objects[o]
            /\ clients'[u] = got
            /\ \A v \in DOMAIN clients' : objects'[clients'[v]].eip_id = v
            /\ \A o \in 1..Len(objects) :
                  o \notin Pooled => o \notin { clients'[v] : v \in DOMAIN clients' }]_vars

\* The client of a user id was replaced by one with another password, and
\* both callers were given the new one.
C14_Witness ==
    \E u \in DOMAIN clients :
        /\ clients[u] = 2
        /\ objects[1].eip_id = u
        /\ objects[1].eip_psw # objects[2].eip_psw
        /\ \A c \in Callers : callers[c].client = Some(2)

\* C15: a caller sends its requests through the client the pool holds for the
\* user id, never through one that get_client has replaced.
C15_NoSendThroughReplacedClient ==
    [][\A c \in Callers :
          Send(c) => TheInt(callers[c].client) \in Pooled]_vars

\* ------------------------------------------------------- executor claims

IsSend(e) == e.ev = "send"

IsGot(e) == e.ev = "got"

IsReset(e) == e.ev = "reset"

IsLogin(e) == e.ev \in {"login_ok", "login_failed"}

IsFailure(e) ==
    /\ e.ev = "got"
    /\ \/ e.o.type \in NetworkErrors
       \/ e.o.type = "Response" /\ e.o.status_code \in retryable_status_codes
                                /\ e.o.status_code \notin expired_status_codes
                                /\ e.o.url \notin expired_urls

\* The number of requests the call has sent.
Sends == Len(SelectSeq(req.log, IsSend))

\* The outcomes of the sends of the call, in order.
Got == [n \in 1..Len(SelectSeq(req.log, IsGot)) |-> SelectSeq(req.log, IsGot)[n].o]

\* C16: a call of safe_request never sends more than max_retries + 1 requests,
\* and once started it ends, whatever the external system answers.
C16_CallEndsWithinBudget ==
    /\ [](Sends <= max_retries + 1)
    /\ (req.pc = "sleep") ~> (req.pc \in {"returned", "raised"})

\* Every send was answered 503: the call has raised after max_retries + 1
\* sends.
C16_Witness ==
    /\ req.pc = "raised"
    /\ req.outcome.kind = "exhausted"
    /\ Sends = max_retries + 1
    /\ Got = [n \in 1..(max_retries + 1) |-> Response(503, "page")]

\* C17: a call whose first send is answered 401 and whose second send is
\* answered 200 returns that 200 response; between the two sends the flags are
\* reset once and ensure_eip runs its login once, and nothing else is sent.
C17_ReloginOnceThenSuccess ==
    ( /\ req.pc \in {"returned", "raised"}
      /\ Got = << Response(401, "page"), Response(200, "page") >> )
    => /\ req.pc = "returned"
       /\ req.outcome = Ending("response", {Response(200, "page")}, {})
       /\ Sends = 2
       /\ Len(SelectSeq(req.log, IsReset)) = 1
       /\ Len(SelectSeq(req.log, IsLogin)) = 1
       /\ req.log[1].ev = "send"
       /\ req.log[2].ev = "got"
       /\ req.log[3].ev = "reset"
       /\ IsLogin(req.log[4])
       /\ req.log[Len(req.log) - 1].ev = "send"
       /\ req.log[Len(req.log)].ev = "got"

\* 401, a re-login of both systems, 200: the call has returned.
C17_Witness ==
    /\ req.pc = "returned"
    /\ Got = << Response(401, "page"), Response(200, "page") >>
    /\ objects[Self].is_eip_logged_in
    /\ objects[Self].is_drweb_initialized

\* C18: when a call gives up after its attempts, it has met max_retries + 1
\* retryable failures (retryable statuses and network errors), whether or not
\* expired sessions came in between.
C18_ExpiredSessionTakesNoSlot ==
    (req.pc = "raised" /\ req.outcome.kind = "exhausted")
        => Len(SelectSeq(req.log, IsFailure)) = max_retries + 1

\* C19: once the re-login after an expired session has failed, the call sends
\* nothing more, and it ends raising.
C19_FailedReloginEndsTheCall ==
    /\ \A m, n \in 1..Len(req.log) :
          m < n /\ req.log[m].ev \in {"login_failed", "drweb_failed"}
              => req.log[n].ev # "send"
    /\ ( /\ req.log # <<>>
         /\ req.log[Len(req.log)].ev \in {"login_failed", "drweb_failed"} )
          => req.pc = "raised"

\* The last outcome of the call.
LastGot == SelectSeq(req.log, IsGot)[Len(SelectSeq(req.log, IsGot))]

\* C20: the failure raised after the last attempt carries the outcome of that
\* attempt: as its cause the network exception the attempt raised, or the
\* retryable response the attempt received.
C20_FailureCarriesLastOutcome ==
    (req.pc = "raised" /\ req.outcome.kind = "exhausted" /\ IsFailure(LastGot))
        => IF LastGot.o.type \in NetworkErrors
           THEN req.outcome.cause =
                    {[type |-> LastGot.o.type, attempt |-> LastGot.attempt]}
           ELSE LastGot.o \in req.outcome.value

\* ----------------------------------------------------------- cache claims

C22_ExpiredEntriesAreHidden ==
    [][ /\ (ret'.op = "get_cache" /\ now' = now) =>
             LET id == ret'.cache_id IN
             (id \in DOMAIN cache /\ cache[id].expires_at < now)
                 => ret'.found = {}
        /\ (ret'.op = "list_caches" /\ now' = now) =>
             \A i \in DOMAIN ret'.list :
                \A id \in DOMAIN cache :
                   cache[id].expires_at < now => ret'.list[i].id # id
        /\ \A id \in DOMAIN cache' :
             /\ cache'[id].expires_at = cache'[id].created_at + CACHE_TTL_HOURS
             /\ id \in DOMAIN cache =>
                   cache'[id].expires_at = cache[id].expires_at ]_vars

\* get_cache was called for an id handed out and returned None while the
\* directory held an expired file that no sweep had removed.
C22_Witness ==
    /\ ret.op = "get_cache"
    /\ ret.cache_id <= minted
    /\ ret.found = {}
    /\ \E id \in DOMAIN cache : IsExpired(cache[id], now)

\* C23: get_cache of the id save_cache returned gives, at any time up to the
\* expiry, exactly the task id, params, data and target_info staged; after a
\* delete_cache that removed the file, get_cache returns None and another
\* delete_cache returns False.
C23_StagedEntryRoundTrip ==
    /\ ret.op = "save_cache" =>
          \A t \in now..MaxHours :
             t <= cache[ret.cache_id].expires_at =>
                LET got == get_cache(cache, ret.cache_id, t).value IN
                /\ got # {}
                /\ \A c \in got :
                      /\ c.task_id = ret.task_id
                      /\ c.params = ret.params
                      /\ c.data = ret.data
                      /\ c.target_info = ret.target_info
    /\ (ret.op = "delete_cache" /\ ret.ok) =>
          /\ get_cache(cache, ret.cache_id, now).value = {}
          /\ delete_cache(cache, ret.cache_id).value = FALSE

\* ---------------------------------------------------------- publish claims

\* The step ends the write of a run that staged the entry id, with success.
RunPublished(id) ==
    \E j \in JobIds :
       /\ runner[j].pc = "write"
       /\ runner[j].cache_id = Some(id)
       /\ runner'[j].pc = "done"
       /\ jobs'[j].result.status = "success"

\* The step ends a retry of the entry id with success.
RetryPublished(id) ==
    /\ retry.pc = "uploading"
    /\ retry.cache_id = id
    /\ retry'.response = "success"

\* The step is a save_cache for the task of the entry id, by the run followed or
\* by another.
Restaged(id) ==
    \/ /\ cache[id].task_id = FEE
       /\ \E j \in JobIds : runner[j].pc = "stage" /\ runner'[j].pc # "stage"
    \/ /\ minted' = minted + 1
       /\ ret'.op = "save_cache"
       /\ ret'.task_id = cache[id].task_id

\* The step is a delete_cache of the entry id by request.
Deleted(id) ==
    /\ ret'.op = "delete_cache"
    /\ ret'.cache_id = id
    /\ ret'.ok

\* The step ends the write of a run in failure.
RunWriteFailed(j) ==
    /\ runner[j].pc = "write"
    /\ runner'[j].pc = "done"
    /\ jobs'[j].result.status = "partial_success"

\* The step ends a retry in failure.
RetryFailed ==
    /\ retry.pc = "uploading"
    /\ retry'.response = "error"

\* C24 as stated: a staged entry leaves the cache only by a publish of it that
\* succeeded.
C24_PersistsUntilPublished ==
    [][ \A id \in DOMAIN cache :
           id \notin DOMAIN cache' => RunPublished(id) \/ RetryPublished(id)
      ]_vars

\* C24: a staged entry keeps its content, which the run staged and a retry
\* uploads, and leaves the cache only by a publish of it that succeeded, past
\* its expiry, by a later save_cache for its task, or by a delete_cache asked
\* for; a write that failed in the run leaves the cache as it is and puts the
\* cache id in the result, a retry that failed leaves the cache as it is.
C24_PersistsUntilPublishedOrDropped ==
    [][ /\ \A id \in DOMAIN cache :
             /\ id \in DOMAIN cache' => cache'[id] = cache[id]
             /\ id \notin DOMAIN cache' =>
                   \/ RunPublished(id)
                   \/ RetryPublished(id)
                   \/ cache[id].expires_at < now
                   \/ Restaged(id)
                   \/ Deleted(id)
        /\ \A j \in JobIds :
             (runner[j].pc = "stage" /\ runner'[j].cache_id # NoInt) =>
                \A c \in get_cache(cache', TheInt(runner'[j].cache_id),
                                   now').value :
                   c.data = cache_data(runner[j])
        /\ (retry.pc # "uploading" /\ retry'.pc = "uploading") =>
             retry'.content = {LoadedFile(cache[retry'.cache_id])}
        /\ \A j \in JobIds :
             RunWriteFailed(j) =>
                /\ cache' = cache
                /\ jobs'[j].result.cache_id = runner[j].cache_id
        /\ RetryFailed => cache' = cache /\ retry'.cache_id = retry.cache_id
      ]_vars

\* The write of the run failed and a retry of the entry it staged failed: the
\* entry is in the cache, under the id the result of the job names.
C24_Witness ==
    /\ runner["j1"].pc = "done"
    /\ jobs["j1"].result.status = "partial_success"
    /\ retry.response = "error"
    /\ jobs["j1"].result.cache_id = Some(retry.cache_id)
    /\ retry.cache_id \in DOMAIN cache
    /\ cache[retry.cache_id].data = json_dump(NativeDict("master_data", 1))

\* ------------------------------------------------------ final status claims

\* C25: a job whose handler returned a result with status error is failed and
\* has an error recorded.
C25_ErrorResultFailsTheJob ==
    \A j \in DOMAIN jobs :
       jobs[j].result.status = "error" =>
          jobs[j].status = FAILED /\ jobs[j].error # None

\* C26: an IviBatchSubmitTask job that went through its batch to the end and
\* was not cancelled is success when an item succeeded and failed when none
\* did.
C26_StatusReflectsAnySuccess ==
    \A j \in DOMAIN jobs :
       ( /\ jobs[j].task_id = IVI
         /\ jobs[j].total_items > 0
         /\ ~jobs[j].cancelled
         /\ jobs[j].result.kind = "IviSubmitResult" ) =>
          jobs[j].status =
             IF jobs[j].result.success > 0 THEN SUCCESS ELSE FAILED

\* --------------------------------------------------------- registry claims

\* C27: no job submitted for a registered task fails because the runner could
\* not call the task: the task is run, whatever shape it was registered in.
C27_RegisteredTaskIsRun ==
    \A j \in DOMAIN jobs : jobs[j].error # NoRunMethod

\* The task that get returns after x was registered.
Registered(x) ==
    StoredTask(IF x.shape = "function" THEN "function" ELSE "instance",
               x.id, x.obj, x.shape = "class")

\* register rejects x.
Rejected(x) == x.shape = "other" \/ (x.shape = "class" /\ ~x.constructs)

\* C28: a register call that is rejected leaves the registry as it is; one
\* that is accepted makes get return the task registered for its id, in the
\* place of the task registered there before, and leaves what get returns for
\* every other id.
C28_LastRegistrationWins ==
    [][ ret'.op = "register" =>
          LET x == ret'.arg IN
          IF Rejected(x)
          THEN registry' = registry
          ELSE /\ get_task(registry', x.id) = {Registered(x)}
               /\ \A id \in RegIds \ {x.id} :
                     get_task(registry', id) = get_task(registry, id)
      ]_vars

\* Another instance was registered under the id of IviBatchSubmitTask, then a
\* class whose construction raises under the id of the function: get returns
\* the other instance, and nothing for the id of the function.
C28_Witness ==
    /\ ret.op = "register"
    /\ ret.arg = TaskArg("class", FN, 1, FALSE)
    /\ get_task(registry, IVI) = {StoredTask("instance", IVI, 2, FALSE)}
    /\ get_task(registry, FN) = {}

\* ------------------------------------------------- authentication claims

\* The flags of the client a method looks at.
FlagsSet(client, method) ==
    IF method = "ensure_eip"
    THEN client.is_eip_logged_in /\ client.is_drweb_initialized
    ELSE client.is_cks_logged_in

\* Coroutine c enters method in this step.
Enters(c, method) ==
    /\ auth[c].pc \in {"idle", "returned"}
    /\ auth'[c].method = method
    /\ auth'[c] # auth[c]
    /\ objects' = objects

\* The login step named pc of coroutine c returns in this step, with success
\* or not.
StepEnds(c, pc, ok) ==
    /\ auth[c].pc = pc
    /\ auth'[c].pc # pc
    /\ (auth'[c].result = "false") = ~ok

\* C29: a call that finds its flags set returns true, having started no login
\* step and changed no flag; a flag becomes true only in the step in which the
\* login step for it returns with success; a login step that fails makes its
\* call return false and changes no flag.
C29_EnsureIsIdempotent ==
    [][ /\ \A c \in Callers, m \in {"ensure_eip", "ensure_cks"} :
             (Enters(c, m) /\ FlagsSet(objects[Self], m)) =>
                /\ auth'[c].pc = "returned"
                /\ auth'[c].result = "true"
                /\ auth'[c].sent = 0
        /\ (~objects[Self].is_eip_logged_in /\ objects'[Self].is_eip_logged_in)
              => \E c \in Callers : StepEnds(c, "login_eip", TRUE)
        /\ (~objects[Self].is_drweb_initialized
               /\ objects'[Self].is_drweb_initialized)
              => \E c \in Callers : StepEnds(c, "init_drweb", TRUE)
        /\ (~objects[Self].is_cks_logged_in /\ objects'[Self].is_cks_logged_in)
              => \E c \in Callers : StepEnds(c, "login_cks", TRUE)
        /\ \A c \in Callers, pc \in {"login_eip", "init_drweb", "login_cks"} :
             StepEnds(c, pc, FALSE) =>
                /\ auth'[c].pc = "returned"
                /\ objects' = objects
      ]_vars

\* ensure_eip was called with both flags set and returned true at once, and
\* an ensure_cks whose login failed returned false, the flag left false.
C29_Witness ==
    /\ auth["a"] = [ pc |-> "returned", method |-> "ensure_eip", sent |-> 0,
                     result |-> "true" ]
    /\ auth["b"] = [ pc |-> "returned", method |-> "ensure_cks", sent |-> 1,
                     result |-> "false" ]
    /\ objects[Self].is_eip_logged_in
    /\ objects[Self].is_drweb_initialized
    /\ ~objects[Self].is_cks_logged_in

\* ---------------------------------------------------------- listing claims

\* C30: list_jobs(status, limit) returns at most limit jobs of the table, each
\* once, all of the status when one is given, a later created job before an
\* earlier one; a job of the table that matches and is not returned was left
\* out because the limit was reached, and is not newer than any job returned.
C30_ListReturnsNewestMatching ==
    [][ (ret'.op = "list_jobs" /\ jobs' = jobs /\ now' = now) =>
          LET v == ret'.value
              Wanted(j) == ret'.status # None => jobs[j].status = ret'.status
          IN
          /\ Len(v) <= ret'.limit
          /\ \A i \in DOMAIN v : v[i] \in DOMAIN jobs /\ Wanted(v[i])
          /\ \A i, k \in DOMAIN v :
                i < k => /\ v[i] # v[k]
                         /\ jobs[v[i]].created_at >= jobs[v[k]].created_at
          /\ \A j \in DOMAIN jobs :
                (Wanted(j) /\ \A i \in DOMAIN v : v[i] # j) =>
                   /\ Len(v) = ret'.limit
                   /\ \A i \in DOMAIN v :
                         jobs[v[i]].created_at >= jobs[j].created_at
      ]_vars

\* Of three jobs, two of them running, one created an hour after the other,
\* list_jobs(running, 1) returned the later one.
C30_Witness ==
    /\ ret.op = "list_jobs"
    /\ ret.status = RUNNING
    /\ ret.limit = 1
    /\ DOMAIN jobs = {"j1", "j2", "j3"}
    /\ jobs["j1"].status = RUNNING /\ jobs["j1"].created_at = 0
    /\ jobs["j2"].status = SUCCESS
    /\ jobs["j3"].status = RUNNING /\ jobs["j3"].created_at = 1
    /\ ret.value = <<"j3">>

\* ------------------------------------------------------------ login claims

\* C31: _login_eip follows at most 5 redirects, and it returns False, the EIP
\* flag staying unset, whenever a page of the chain, the page the last
\* followed redirect led to included, redirects to the login page without a
\* token.
C31_LoginPageInChainFails ==
    /\ Len(login.followed) <= redirect_limit
    /\ (/\ login.pc = "returned"
        /\ \E k \in DOMAIN login.pages : login.pages[k] = "/login.php")
       => /\ login.result = "false"
          /\ ~objects[Self].is_eip_logged_in

\* ------------------------------------------------------------ delay claims

\* Largest attempt number the backoff formula is evaluated for.
MaxAttempt == 7

\* min(base * multiplier^(n-1), cap) for the n-th retry.
ExpectedBackoff(n) ==
    LET raw == retry_base_delay * retry_exponential_base ^ (n - 1)
    IN IF raw <= retry_max_delay THEN raw ELSE retry_max_delay

\* The delay of a sleep without its random factor: the middle of its range.
Unjittered(d) == (d.low + d.high) \div 2

\* C32: in one call of safe_request every send follows one sleep of its own;
\* the sleep before attempt 0 is the rate_limit pacing delay and no other
\* sleep is; the sleep before attempt n >= 1 is, jitter apart,
\* min(base * multiplier^(n-1), cap), which does not decrease with n and is
\* at most cap.
C32_PacingOnceThenBackoff ==
    /\ \A k \in DOMAIN req.delays :
          LET d == req.delays[k] IN
          /\ d.attempt = k - 1
          /\ (d.kind = "rate_limit") = (k = 1)
          /\ k > 1 => /\ d.kind = "backoff"
                      /\ Unjittered(d) = ExpectedBackoff(k - 1)
                      /\ Unjittered(d) <= retry_max_delay
          /\ k > 2 => Unjittered(req.delays[k - 1]) <= Unjittered(d)
    /\ Sends = IF req.pc = "sleep" THEN Len(req.delays) - 1
               ELSE Len(req.delays)
    /\ \A n \in 1..MaxAttempt :
          /\ ExpectedBackoff(n) <= retry_max_delay
          /\ n > 1 => ExpectedBackoff(n - 1) <= ExpectedBackoff(n)

\* A call slept before each of its four attempts: the pacing delay, then 1,
\* 2 and 4 seconds.
C32_Witness ==
    /\ Len(req.delays) = max_retries + 1
    /\ req.pc = "raised"
    /\ req.delays[1].kind = "rate_limit"
    /\ Unjittered(req.delays[2]) = 10
    /\ Unjittered(req.delays[3]) = 20
    /\ Unjittered(req.delays[4]) = 40

\* ------------------------------------------------ several destinations

\* C33: a run that stages an entry and publishes it to several targets
\* deletes the entry only when the publish succeeded; when the publish to any
\* target failed, the entry is still in the cache when the run returns.
C33_EntryKeptUnlessAllPublished ==
    [][ (ret'.op = "dashboard_bed" /\ minted' = minted + 1) =>
          \A id \in ret'.staged :
             (\E k \in DOMAIN ret'.targets : ~ret'.written[k])
                => id \in DOMAIN cache'
      ]_vars

\* ----------------------------------------------------------- exit claims

\* C34: a job the runner has picked up, every await of its run returning or
\* raising, gets a terminal status: whichever way run_crawler_job ends
\* (unknown task, missing credentials, login failure, invalid parameters, an
\* exception, a cancelled result, any other result), the job it leaves has
\* status success, failed or cancelled.
C34_PickedUpJobEndsTerminal ==
    /\ [](\A j \in DOMAIN jobs :
            runner[j].pc = "done" => jobs[j].status \in TerminalStatuses)
    /\ \A j \in JobIds :
          (runner[j].pc \notin {"idle", "queued", "done"})
             ~> (runner[j].pc = "done" /\ jobs[j].status \in TerminalStatuses)

\* A run ended at the failed login and left the job failed.
C34_Witness ==
    /\ "j1" \in DOMAIN jobs
    /\ runner["j1"].pc = "done"
    /\ jobs["j1"].status = FAILED
    /\ jobs["j1"].error = "Login failed"

\* ------------------------------------------------- shared client claims

\* The coroutines suspended in a login step of the client.
LoggingIn == {c \in Callers : auth[c].pc \in {"login_eip", "init_drweb", "login_cks"}}

\* C35: on a client shared by two coroutines that call ensure_eip or
\* ensure_cks, or handle a session expiry, at most one login sequence runs at
\* a time: no coroutine tests the flag and logs in while the login of another
\* is in progress.
C35_OneLoginAtATime == Cardinality(LoggingIn) <= 1

\* C36: in every state of a client shared by interleaved coroutines the DrWeb
\* flag is not set while the EIP flag is unset. (That a flag is set only by
\* the success of its own login step, and so after the reset before it, is
\* the flag rule checked with ensure_eip and ensure_cks above.)
C36_DrwebOnlyWithEip ==
    objects[Self].is_drweb_initialized => objects[Self].is_eip_logged_in

\* --------------------------------------------------------- fallback claims

\* C37: run_crawler_job calls its handler without progress_callback only when
\* the handler could not be called with it: never after the first call has
\* processed an item.
C37_FallbackOnlyBeforeItems ==
    [][ \A j \in JobIds :
          (runner'[j].fallback /\ ~runner[j].fallback)
             => runner[j].fetched = <<>>
      ]_vars

\* ------------------------------------------------------------ batch claims

\* The step ends the loop of the handler of job j, which was not cancelled:
\* IviBatchSubmitTask returns, StatsFeeTask goes on to stage its data.
LoopRunsOut(j) ==
    /\ runner[j].pc = "item"
    /\ ~jobs[j].cancelled
    /\ \/ runner[j].task = IVI /\ runner'[j].pc = "done"
       \/ runner[j].task = FEE /\ runner'[j].pc = "stage"

\* C38: in a run on a job created for it, whose ledger is empty, every item
\* of the batch is attempted once, in order, an item that has the key of an
\* earlier item included: none is skipped as completed.
C38_FreshRunAttemptsEveryItem ==
    [][ \A j \in DOMAIN jobs :
          (LoopRunsOut(j) /\ runner[j].ledger0 = {} /\ Tracked(runner[j]))
             => runner[j].fetched = runner[j].items
      ]_vars

\* C39: in every reachable state the progress of every job is an integer
\* between 0 and 100 inclusive, whatever sequence of update_job,
\* set_total_items and mark_item_completed calls led to it.
C39_ProgressWithinPercent ==
    \A j \in DOMAIN jobs : jobs[j].progress \in 0..100

============================================================================
